---- MODULE Spec2Model ----
(***************************************************************************)
(* Model of the tokscale pricing core: the on-disk cache (pricing/cache.rs),*)
(* the remote pricing acquisition (pricing/litellm.rs, openrouter.rs,      *)
(* mod.rs) and the pricing resolver (pricing/lookup.rs).                   *)
(*                                                                         *)
(* The specifications share the variables:                                 *)
(*   SpecCache / SpecCacheSolo : save_cache and load_cache step by step on *)
(*                               a file system with inodes and descriptors *)
(*   Spec                      : PricingService::fetch with litellm::fetch *)
(*                               and fetch_all_mapped running concurrently *)
(*   SpecEndpoints             : fetch_all_mapped and its                  *)
(*                               fetch_model_endpoints futures             *)
(*   SpecLookup                : PricingLookup::lookup over strings        *)
(*   SpecNormalize             : normalize_model_name over composed ids    *)
(*   SpecMissing               : openrouter::fetch_missing, then a lookup  *)
(*                               in the mapping it returned                *)
(*   SpecCost                  : PricingLookup::calculate_cost             *)
(*   SpecAmp                   : sessions::amp::parse_amp_file             *)
(***************************************************************************)
EXTENDS Integers, Sequences, FiniteSets, TLC

VARIABLES
    now,        \* SystemTime::now() in seconds since the epoch
    fs,         \* directory: path -> inode number, 0 when the path is absent
    inode,      \* inode number -> file content (a sequence of chunks)
    pc,         \* position of each save_cache call
    content,    \* `content` local of each save_cache call (serialized blob)
    fd,         \* inode the call's open `file` refers to, 0 when none
    off,        \* write offset of the call's open `file`
    lastLoad,   \* position and result of the load_cache call
    svc,        \* PricingService::fetch: position and result
    lit,        \* litellm::fetch: position, locals and result
    orf,        \* openrouter::fetch_all_mapped: position, locals and result
    task,       \* per id: the fetch_model_endpoints future of the fan-out
    lk,         \* the PricingLookup: litellm, openrouter, sorted_keys
    query,      \* the latest lookup call: model_id and result
    cost,       \* the latest calculate_cost call: arguments and outcome
    amp,        \* the latest parse_amp_file call: the file and the outcome
    norm,       \* the latest normalize_model_name call: the id and the result
    miss        \* openrouter::fetch_missing: position, locals and result

cacheVars == <<now, fs, inode, pc, content, fd, off, lastLoad>>
saveVars == <<pc, content, fd, off, lastLoad>>
fetchVars == <<svc, lit, orf, task>>
lookupVars == <<lk, query>>
callVars == <<cost, amp, norm, miss>>
vars == <<now, fs, inode, pc, content, fd, off, lastLoad, svc, lit, orf, task,
          lk, query, cost, amp, norm, miss>>

(***************************************************************************)
(* Strings.  A Rust String is modelled as a TLA+ string; Chars gives its   *)
(* characters, so that searches and splits are computed, not assumed.      *)
(***************************************************************************)
Chars(s) == [i \in 1..Len(s) |-> SubSeq(s, i, i)]

\* Option<T>
None == [some |-> FALSE]
Some(v) == [some |-> TRUE, v |-> v]

UpperChars == Chars("ABCDEFGHIJKLMNOPQRSTUVWXYZ")
LowerChars == Chars("abcdefghijklmnopqrstuvwxyz")
DigitChars == Chars("0123456789")

InSeq(c, cs) == \E i \in 1..Len(cs) : cs[i] = c

UpperSet == {UpperChars[i] : i \in 1..26}
AlnumSet == UpperSet \cup {LowerChars[i] : i \in 1..26} \cup {DigitChars[i] : i \in 1..10}
LowerOf == [c \in UpperSet |-> LowerChars[CHOOSE i \in 1..26 : UpperChars[i] = c]]

\* char::to_lowercase / to_ascii_lowercase on the ASCII range
LowerChar(c) == IF c \in UpperSet THEN LowerOf[c] ELSE c

\* char::is_alphanumeric on the ASCII range
is_alphanumeric(c) == c \in AlnumSet

\* the String made of the characters cs
RECURSIVE Concat(_)
Concat(cs) == IF cs = <<>> THEN "" ELSE Head(cs) \o Concat(Tail(cs))

\* str::to_lowercase
to_lowercase(s) == Concat([i \in 1..Len(s) |-> LowerChar(SubSeq(s, i, i))])

\* str::eq_ignore_ascii_case
eq_ignore_ascii_case(a, b) == to_lowercase(a) = to_lowercase(b)

\* str::find: the first position (from 0) at which needle occurs, or None
find(haystack, needle) ==
    LET hits == {p \in 0..(Len(haystack) - Len(needle)) :
                    SubSeq(haystack, p + 1, p + Len(needle)) = needle}
    IN  IF hits = {} THEN None
        ELSE Some(CHOOSE p \in hits : \A q \in hits : p <= q)

\* str::contains
contains(haystack, needle) == find(haystack, needle).some

\* str::starts_with
starts_with(s, prefix) ==
    Len(prefix) <= Len(s) /\ SubSeq(s, 1, Len(prefix)) = prefix

\* str::split(sep).collect::<Vec<&str>>() for a one-character separator
RECURSIVE split(_, _)
split(s, sep) ==
    LET f == find(s, sep)
    IN  IF ~f.some THEN <<s>>
        ELSE <<SubSeq(s, 1, f.v)>> \o split(SubSeq(s, f.v + 2, Len(s)), sep)

\* str::trim for blanks
RECURSIVE trim(_)
trim(s) ==
    IF Len(s) > 0 /\ SubSeq(s, 1, 1) = " " THEN trim(SubSeq(s, 2, Len(s)))
    ELSE IF Len(s) > 0 /\ SubSeq(s, Len(s), Len(s)) = " "
         THEN trim(SubSeq(s, 1, Len(s) - 1))
    ELSE s

(***************************************************************************)
(* pricing/litellm.rs: ModelPricing.  A rate is an f64; the finite ones    *)
(* are counted in units of 1e-7 USD per token.                             *)
(***************************************************************************)
Finite(n) == [cls |-> "finite", v |-> n]
Infinite == [cls |-> "inf"]
NaN == [cls |-> "nan"]

is_finite(x) == x.cls = "finite"

\* str::parse::<f64>() on the price strings of the modelled responses
parse_f64(str) ==
    CASE str = "0.000003"  -> Some(Finite(30))
      [] str = "0.000015"  -> Some(Finite(150))
      [] str = "0.0000003" -> Some(Finite(3))
      [] str = "0"         -> Some(Finite(0))
      [] str = "-1"        -> Some(Finite(-10000000))
      [] str = "NaN"       -> Some(NaN)
      [] str = "inf"       -> Some(Infinite)
      [] OTHER             -> None

ModelPricing(i, o, cw, cr) ==
    [input_cost_per_token |-> i,
     output_cost_per_token |-> o,
     cache_creation_input_token_cost |-> cw,
     cache_read_input_token_cost |-> cr]

(***************************************************************************)
(* pricing/cache.rs                                                        *)
(***************************************************************************)
CACHE_TTL_SECS == 3600

OPENROUTER_CACHE_FILENAME == "pricing-openrouter.json"
LITELLM_CACHE_FILENAME == "pricing-litellm.json"

\* get_cache_dir().join(filename)
get_cache_path(filename) == "tokscale/" \o filename

\* Path::with_extension: the text after the last '.' is replaced
with_extension(path, ext) ==
    LET cs   == Chars(path)
        dots == {i \in 1..Len(path) : cs[i] = "."}
    IN  IF dots = {} THEN path \o "." \o ext
        ELSE LET last == CHOOSE i \in dots : \A j \in dots : j <= i
             IN  SubSeq(path, 1, last) \o ext

final_path(filename) == get_cache_path(filename)

\* mutant: the blob is written straight to the final path
tmp_path_direct(filename) == final_path(filename)

tmp_path(filename) == with_extension(final_path(filename), "tmp")

\* serde_json::to_string(&CachedData { timestamp, data }): the text
\* {"timestamp":T,  followed by  "data":D}  -- two chunks, the unit in which
\* a write may be split
TsChunk(ts) == [k |-> "ts", ts |-> ts]
DataChunk(d) == [k |-> "data", data |-> d]
ZeroChunk == [k |-> "zero"]
JunkChunk == [k |-> "junk"]

\* the JSON text of an Option<f64>: serde_json writes null for None and for
\* a value that is not finite
f64_to_json(rate) ==
    IF rate.some /\ is_finite(rate.v) THEN [json |-> "number", n |-> rate.v.v]
    ELSE [json |-> "null"]

\* an Option<f64> from its JSON text
f64_from_json(text) ==
    IF text.json = "number" THEN Some(Finite(text.n)) ELSE None

\* the JSON text of a ModelPricing: an object with the four fields by name
pricing_to_json(p) ==
    [input_cost_per_token |-> f64_to_json(p.input_cost_per_token),
     output_cost_per_token |-> f64_to_json(p.output_cost_per_token),
     cache_creation_input_token_cost |-> f64_to_json(p.cache_creation_input_token_cost),
     cache_read_input_token_cost |-> f64_to_json(p.cache_read_input_token_cost)]

\* mutant: the cache-read rate is read from the cache-creation field
pricing_from_json_misread(text) ==
    ModelPricing(f64_from_json(text.input_cost_per_token),
                 f64_from_json(text.output_cost_per_token),
                 f64_from_json(text.cache_creation_input_token_cost),
                 f64_from_json(text.cache_creation_input_token_cost))

pricing_from_json(text) ==
    ModelPricing(f64_from_json(text.input_cost_per_token),
                 f64_from_json(text.output_cost_per_token),
                 f64_from_json(text.cache_creation_input_token_cost),
                 f64_from_json(text.cache_read_input_token_cost))

\* the JSON text of a HashMap<String, ModelPricing>
to_json(data) == [k \in DOMAIN data |-> pricing_to_json(data[k])]
from_json(text) == [k \in DOMAIN text |-> pricing_from_json(text[k])]

Serialize(ts, d) == <<TsChunk(ts), DataChunk(to_json(d))>>

\* serde_json::from_str::<CachedData<T>>(&content).ok()
Deserialize(c) ==
    IF Len(c) = 2 /\ c[1].k = "ts" /\ c[2].k = "data"
    THEN Some([timestamp |-> c[1].ts, data |-> from_json(c[2].data)])
    ELSE None

\* u64::saturating_sub
saturating_sub(a, b) == IF a >= b THEN a - b ELSE 0

\* mutant: the TTL test without the future-timestamp test
IsExpired_NoFuture(ts, t) == saturating_sub(t, ts) > CACHE_TTL_SECS

\* cache.rs:34  cached.timestamp > now || now.saturating_sub(..) > TTL
IsExpired(ts, t) == ts > t \/ saturating_sub(t, ts) > CACHE_TTL_SECS

\* fs::read_to_string(&path).ok(): None when the path is absent
ReadFile(dir, files, path) ==
    IF dir[path] = 0 THEN None ELSE Some(files[dir[path]])

\* load_cache on what the file system holds at time t
load_cache(dir, files, filename, t) ==
    LET rd == ReadFile(dir, files, get_cache_path(filename))
    IN  IF ~rd.some THEN None
        ELSE LET cached == Deserialize(rd.v)
             IN  IF ~cached.some THEN None
                 ELSE IF IsExpired(cached.v.timestamp, t) THEN None
                 ELSE Some(cached.v.data)

(***************************************************************************)
(* Bounds of the cache model                                               *)
(***************************************************************************)
NumSaves == 2          \* save_cache calls, possibly concurrent
StartNow == 4000       \* the clock at the start
MaxSmall == 1          \* the clock is StartNow + a + b * CACHE_TTL_SECS,
MaxBig == 1            \*   a \in 0..MaxSmall, b \in 0..MaxBig

Saves == 1..NumSaves
\* datasets a caller hands to save_cache, and the one on disk beforehand
DataOne ==
    [k \in {"openai/gpt-4o"} |->
        ModelPricing(Some(Finite(25)), Some(Finite(100)), None, None)]
DataTwo ==
    [k \in {"x-ai/grok-3", "anthropic/claude-sonnet-4.5"} |->
        ModelPricing(Some(Finite(30)), Some(Finite(150)), Some(Finite(37)),
                     Some(Finite(3)))]
DataPrior ==
    [k \in {"x-ai/grok-3"} |->
        ModelPricing(Some(Finite(50)), Some(Finite(150)), None, None)]
Datasets == {DataOne, DataTwo}
ClockValues ==
    {StartNow + a + b * CACHE_TTL_SECS : a \in 0..MaxSmall, b \in 0..MaxBig}

\* what the final path may hold before any save of the run: nothing, a file
\* that does not deserialize, or a blob written at some earlier or later time
PriorContents ==
    {<<JunkChunk>>} \cup
    {Serialize(ts, DataPrior) : ts \in {StartNow - CACHE_TTL_SECS - 1,
                                   StartNow - CACHE_TTL_SECS,
                                   StartNow, StartNow + 1}}

\* std::fs::File writes at the descriptor's offset; a gap reads as zeroes
WriteAt(c, o, chunks) ==
    LET n == IF Len(c) > o + Len(chunks) THEN Len(c) ELSE o + Len(chunks)
    IN  [i \in 1..n |->
            IF i > o /\ i <= o + Len(chunks) THEN chunks[i - o]
            ELSE IF i <= Len(c) THEN c[i]
            ELSE ZeroChunk]

\* an inode that no path and no open descriptor refers to is freed: its
\* content is gone
Reclaim(files, dir, fds) ==
    [i \in 1..Len(files) |->
        IF (\E p \in DOMAIN dir : dir[p] = i) \/ (\E w \in DOMAIN fds : fds[w] = i)
        THEN files[i] ELSE <<>>]

InFlight(w) == pc[w] \in {"create", "write", "sync", "rename"}

Paths == {final_path(OPENROUTER_CACHE_FILENAME), tmp_path(OPENROUTER_CACHE_FILENAME)}

FinalContent == ReadFile(fs, inode, final_path(OPENROUTER_CACHE_FILENAME))

InitCache ==
    /\ now = StartNow
    /\ \/ /\ fs = [p \in Paths |-> 0]
          /\ inode = <<>>
       \/ \E c \in PriorContents :
          /\ fs = [p \in Paths |->
                     IF p = final_path(OPENROUTER_CACHE_FILENAME) THEN 1 ELSE 0]
          /\ inode = <<c>>
    /\ pc = [w \in Saves |-> "idle"]
    /\ content = [w \in Saves |-> <<>>]
    /\ fd = [w \in Saves |-> 0]
    /\ off = [w \in Saves |-> 0]
    /\ lastLoad = [pc |-> "idle"]
    /\ svc = [pc |-> "idle"]
    /\ lit = [pc |-> "idle"]
    /\ orf = [pc |-> "idle"]
    /\ task = <<>>
    /\ lk = <<>>
    /\ query = <<>>
    /\ cost = <<>>
    /\ amp = <<>>
    /\ norm = <<>>
    /\ miss = <<>>

\* save_cache, lines 42-51: create_dir_all, SystemTime::now, to_string.
\* `exclusive` restricts the run to one save_cache call at a time; the calls
\* are then interchangeable and are numbered in the order they start.
SaveStart(w, d, exclusive) ==
    /\ pc[w] = "idle"
    /\ exclusive => \A v \in Saves : ~InFlight(v) /\ (v < w => pc[v] # "idle")
    /\ pc' = [pc EXCEPT ![w] = "create"]
    /\ content' = [content EXCEPT ![w] = Serialize(now, d)]
    /\ UNCHANGED <<now, fs, inode, fd, off, lastLoad>>

\* the lowest inode number nothing refers to
FreeInode ==
    CHOOSE i \in 1..(Len(inode) + 1) :
        /\ \A p \in DOMAIN fs : fs[p] # i
        /\ \A w \in DOMAIN fd : fd[w] # i
        /\ \A j \in 1..(i - 1) :
              (\E p \in DOMAIN fs : fs[p] = j) \/ (\E w \in DOMAIN fd : fd[w] = j)

\* fs::File::create(&tmp_path): truncates the file the path names, or
\* creates an empty one
SaveCreate(w) ==
    /\ pc[w] = "create"
    /\ LET tp == tmp_path(OPENROUTER_CACHE_FILENAME)
           i  == IF fs[tp] = 0 THEN FreeInode ELSE fs[tp]
       IN  /\ inode' = IF i > Len(inode) THEN Append(inode, <<>>)
                       ELSE [inode EXCEPT ![i] = <<>>]
           /\ fs' = [fs EXCEPT ![tp] = i]
           /\ fd' = [fd EXCEPT ![w] = i]
    /\ off' = [off EXCEPT ![w] = 0]
    /\ pc' = [pc EXCEPT ![w] = "write"]
    /\ UNCHANGED <<now, content, lastLoad>>

\* file.write_all(content.as_bytes()): one write(2) of n chunks per step
SaveWrite(w, n) ==
    /\ pc[w] = "write"
    /\ n \in 1..(Len(content[w]) - off[w])
    /\ inode' = [inode EXCEPT ![fd[w]] =
                    WriteAt(@, off[w], SubSeq(content[w], off[w] + 1, off[w] + n))]
    /\ off' = [off EXCEPT ![w] = @ + n]
    /\ pc' = [pc EXCEPT ![w] =
                 IF off[w] + n = Len(content[w]) THEN "sync" ELSE "write"]
    /\ UNCHANGED <<now, fs, content, fd, lastLoad>>

\* file.sync_all()
SaveSync(w) ==
    /\ pc[w] = "sync"
    /\ pc' = [pc EXCEPT ![w] = "rename"]
    /\ UNCHANGED <<now, fs, inode, content, fd, off, lastLoad>>

\* fs::rename(&tmp_path, &final_path): fails when the temporary path is gone
SaveRename(w) ==
    /\ pc[w] = "rename"
    /\ LET tp == tmp_path(OPENROUTER_CACHE_FILENAME)
           fp == final_path(OPENROUTER_CACHE_FILENAME)
       IN  IF fs[tp] = 0
           THEN /\ fs' = fs
                /\ pc' = [pc EXCEPT ![w] = "failed"]
           ELSE /\ fs' = [p \in Paths |-> IF p = fp THEN fs[tp] ELSE 0]
                /\ pc' = [pc EXCEPT ![w] = "done"]
    /\ fd' = [fd EXCEPT ![w] = 0]
    /\ off' = [off EXCEPT ![w] = 0]
    /\ inode' = Reclaim(inode, fs', fd')
    /\ content' = [content EXCEPT ![w] = <<>>]
    /\ UNCHANGED <<now, lastLoad>>

\* an I/O error (the `?` of lines 43, 51, 59, 60, 61) or a crash of the
\* process at any step before the rename
SaveInterrupt(w) ==
    /\ InFlight(w)
    /\ pc' = [pc EXCEPT ![w] = "failed"]
    /\ fd' = [fd EXCEPT ![w] = 0]
    /\ off' = [off EXCEPT ![w] = 0]
    /\ inode' = Reclaim(inode, fs, fd')
    /\ content' = [content EXCEPT ![w] = <<>>]
    /\ UNCHANGED <<now, fs, lastLoad>>

\* one load_cache call returns
Load ==
    /\ lastLoad.pc = "idle"
    /\ lastLoad' = [pc |-> "returned",
                    result |-> load_cache(fs, inode, OPENROUTER_CACHE_FILENAME, now)]
    /\ UNCHANGED <<now, fs, inode, pc, content, fd, off>>

\* the caller has consumed the result
LoadDone ==
    /\ lastLoad.pc = "returned"
    /\ lastLoad' = [pc |-> "idle"]
    /\ UNCHANGED <<now, fs, inode, pc, content, fd, off>>

\* the system clock moves forward
Tick(t) ==
    /\ t > now
    /\ now' = t
    /\ UNCHANGED <<fs, inode, pc, content, fd, off, lastLoad>>

SaveSteps(exclusive) ==
    \/ \E w \in Saves, d \in Datasets : SaveStart(w, d, exclusive)
    \/ \E w \in Saves : SaveCreate(w)
    \/ \E w \in Saves, n \in 1..2 : SaveWrite(w, n)
    \/ \E w \in Saves : SaveSync(w)
    \/ \E w \in Saves : SaveRename(w)
    \/ \E w \in Saves : SaveInterrupt(w)

\* save_cache calls race with each other and with load_cache
NextCache ==
    /\ \/ SaveSteps(FALSE)
       \/ Load
       \/ LoadDone
    /\ UNCHANGED <<fetchVars, lookupVars, callVars>>

\* one save_cache call at a time, under a moving clock
NextCacheSolo ==
    /\ \/ SaveSteps(TRUE)
       \/ Load
       \/ LoadDone
       \/ \E t \in ClockValues : Tick(t)
    /\ UNCHANGED <<fetchVars, lookupVars, callVars>>

SpecCache == InitCache /\ [][NextCache]_vars
SpecCacheSolo == InitCache /\ [][NextCacheSolo]_vars

(***************************************************************************)
(* pricing/aliases.rs is not among the sources: the tables are stated here *)
(* as the specification describes them (section 4.3), with sample entries. *)
(***************************************************************************)
\* alias map from informal model ids to author/slug per-endpoint ids
OPENROUTER_MAPPINGS ==
    [m \in {"claude-sonnet-4-5", "sonnet-4-5", "grok-3"} |->
        IF m = "grok-3" THEN "x-ai/grok-3" ELSE "anthropic/claude-sonnet-4.5"]

\* provider-name synonym map: author -> provider display name
OPENROUTER_PROVIDER_NAMES == [a \in {"x-ai"} |-> "xAI"]

\* aliases::get_openrouter_id
get_openrouter_id(model_id) ==
    IF model_id \in DOMAIN OPENROUTER_MAPPINGS
    THEN Some(OPENROUTER_MAPPINGS[model_id]) ELSE None

(***************************************************************************)
(* pricing/openrouter.rs                                                   *)
(***************************************************************************)
MAX_RETRIES == 3
INITIAL_BACKOFF_MS == 200

\* what one GET of the endpoints URL may bring back
EndpointPricing(p, c, r, w) ==
    [prompt |-> p, completion |-> c, input_cache_read |-> r, input_cache_write |-> w]
Endpoint(name, pricing) == [provider_name |-> name, pricing |-> pricing]

BadJson == [json |-> FALSE]
EndpointsResponse(eps) == [json |-> TRUE, endpoints |-> eps]

BodyNoEndpoints == EndpointsResponse(<<>>)
BodyAnthropic ==
    EndpointsResponse(<<Endpoint("Anthropic",
        EndpointPricing("0.000003", "0.000015", Some("0.0000003"), None))>>)
BodyXai ==
    EndpointsResponse(<<Endpoint("Other", EndpointPricing("0", "0", None, None)),
                        Endpoint("XAI",
        EndpointPricing(" 0.000003 ", "0.000015", Some("abc"), Some("-1")))>>)
BodyBadPrompt ==
    EndpointsResponse(<<Endpoint("anthropic",
        EndpointPricing("abc", "0.000015", None, None))>>)
BodyNaN ==
    EndpointsResponse(<<Endpoint("xAI",
        EndpointPricing("0.000003", "NaN", None, None))>>)

Bodies == {BadJson, BodyNoEndpoints, BodyAnthropic, BodyXai, BodyBadPrompt, BodyNaN}

NoResponse == [kind |-> "none"]
NetworkError == [kind |-> "error"]
Http(status, body) == [kind |-> "http", status |-> status, body |-> body]

Responses ==
    {NetworkError}
      \cup {Http(st, BadJson) : st \in {301, 404, 429, 503}}
      \cup {Http(200, b) : b \in Bodies}

\* StatusCode::is_server_error, StatusCode::is_success
is_server_error(status) == status >= 500 /\ status < 600
is_success(status) == status >= 200 /\ status < 300

\* mutant: every error status is retried
is_transient_status_any(status) == status >= 400

\* openrouter.rs:65  the statuses that are retried
is_transient_status(status) == is_server_error(status) \/ status = 429

\* mutant: the range 0..=MAX_RETRIES
loop_continues_inclusive(attempt) == attempt <= MAX_RETRIES

\* openrouter.rs:47  for attempt in 0..MAX_RETRIES
loop_continues(attempt) == attempt < MAX_RETRIES

\* 1 << attempt
RECURSIVE shl1(_)
shl1(n) == IF n = 0 THEN 1 ELSE 2 * shl1(n - 1)

\* mutant: the sleep is not skipped after the last attempt
backoff_unconditional(attempt) == Some(INITIAL_BACKOFF_MS * shl1(attempt))

\* openrouter.rs:55-59 and 67-71: the delay before the next attempt, if any
backoff(attempt) ==
    IF attempt < MAX_RETRIES - 1
    THEN Some(INITIAL_BACKOFF_MS * shl1(attempt))
    ELSE None

\* openrouter.rs:88-91
expected_provider(author) ==
    IF author \in DOMAIN OPENROUTER_PROVIDER_NAMES
    THEN OPENROUTER_PROVIDER_NAMES[author] ELSE author

\* openrouter.rs:93-94  endpoints.iter().find(..)
find_endpoint(endpoints, provider) ==
    LET hits == {i \in 1..Len(endpoints) :
                    eq_ignore_ascii_case(endpoints[i].provider_name, provider)}
    IN  IF hits = {} THEN None
        ELSE Some(endpoints[CHOOSE i \in hits : \A j \in hits : i <= j])

\* mutant: an optional price is kept as parsed, without the filter
optional_price_unfiltered(field) ==
    IF ~field.some THEN None ELSE parse_f64(trim(field.v))

\* openrouter.rs:126-133  .and_then(|s| s.trim().parse().ok()).filter(..)
optional_price(field) ==
    IF ~field.some THEN None
    ELSE LET v == parse_f64(trim(field.v))
         IN  IF v.some /\ is_finite(v.v) /\ v.v.v >= 0 THEN v ELSE None

\* openrouter.rs:102-134: the pricing of the matched endpoint, or None
endpoint_pricing(endpoint) ==
    LET input_cost  == parse_f64(trim(endpoint.pricing.prompt))
        output_cost == parse_f64(trim(endpoint.pricing.completion))
    IN  IF ~input_cost.some THEN None
        ELSE IF ~output_cost.some THEN None
        ELSE IF \/ ~is_finite(input_cost.v) \/ ~is_finite(output_cost.v)
                \/ input_cost.v.v < 0 \/ output_cost.v.v < 0
             THEN None
        ELSE Some(ModelPricing(input_cost, output_cost,
                               optional_price(endpoint.pricing.input_cache_write),
                               optional_price(endpoint.pricing.input_cache_read)))

\* one pass of the loop body of fetch_model_endpoints (lines 48-134) on the
\* response resp: either `continue` (after an optional sleep) or `return`
attempt_outcome(author, attempt, resp) ==
    IF resp.kind = "error"
    THEN [kind |-> "continue", last_error |-> [error |-> "network error"],
          sleep |-> backoff(attempt)]
    ELSE IF is_transient_status(resp.status)
    THEN [kind |-> "continue", last_error |-> [error |-> "HTTP", status |-> resp.status],
          sleep |-> backoff(attempt)]
    ELSE IF ~is_success(resp.status) THEN [kind |-> "return", value |-> None]
    ELSE IF ~resp.body.json THEN [kind |-> "return", value |-> None]
    ELSE LET endpoint == find_endpoint(resp.body.endpoints, expected_provider(author))
         IN  IF ~endpoint.some THEN [kind |-> "return", value |-> None]
             ELSE [kind |-> "return", value |-> endpoint_pricing(endpoint.v)]

(***************************************************************************)
(* The acquisition run: PricingService::fetch joins litellm::fetch and     *)
(* openrouter::fetch_all_mapped; fetch_all_mapped joins one future per id. *)
(***************************************************************************)
\* the unique_ids of fetch_all_mapped (openrouter.rs:155-156)
unique_ids == {OPENROUTER_MAPPINGS[m] : m \in DOMAIN OPENROUTER_MAPPINGS}

BulkOld == [k \in {"anthropic/sonnet-4-5"} |->
               ModelPricing(Some(Finite(30)), Some(Finite(150)), None, None)]
BulkNew == [k \in {"anthropic/sonnet-4-5", "openai/gpt-4o"} |->
               ModelPricing(Some(Finite(30)), Some(Finite(150)), None, Some(Finite(3)))]
EndpointsOld == [k \in {"x-ai/grok-3"} |->
               ModelPricing(Some(Finite(30)), Some(Finite(150)), None, None)]

\* what the GET of PRICING_URL may bring back; the status is not examined
BulkJson(d) == [json |-> TRUE, data |-> d]
BulkResponses ==
    { [kind |-> "builder error"], NetworkError,
      Http(200, BulkJson(BulkNew)), Http(200, BadJson), Http(404, BadJson) }

FetchPaths == {final_path(LITELLM_CACHE_FILENAME), final_path(OPENROUTER_CACHE_FILENAME)}

\* the inode a cache file of the acquisition run lives in
FileIndex(filename) == IF filename = LITELLM_CACHE_FILENAME THEN 1 ELSE 2

\* save_cache as one step: on success the final path holds the new blob, on
\* any error it holds what it held (the temporary file is private to the
\* one writer of each file in this run)
save_cache(dir, files, filename, t, data, ok) ==
    IF ok
    THEN [fs    |-> [dir EXCEPT ![final_path(filename)] = FileIndex(filename)],
          inode |-> [files EXCEPT ![FileIndex(filename)] = Serialize(t, data)]]
    ELSE [fs |-> dir, inode |-> files]

IdleTask == [pc |-> "idle"]
IdleLit == [pc |-> "idle"]
IdleOrf == [pc |-> "idle"]
IdleSvc == [pc |-> "idle"]

InitialFiles(old) ==
    {None,
     Some(Serialize(StartNow - CACHE_TTL_SECS - 1, old)),
     Some(Serialize(StartNow, old))}

InitFetch ==
    /\ now = StartNow
    /\ \E l \in InitialFiles(BulkOld), o \in InitialFiles(EndpointsOld) :
         /\ fs = [p \in FetchPaths |->
                    IF p = final_path(LITELLM_CACHE_FILENAME)
                    THEN (IF l.some THEN 1 ELSE 0)
                    ELSE (IF o.some THEN 2 ELSE 0)]
         /\ inode = <<IF l.some THEN l.v ELSE <<>>, IF o.some THEN o.v ELSE <<>> >>
    /\ pc = [w \in Saves |-> "idle"]
    /\ content = [w \in Saves |-> <<>>]
    /\ fd = [w \in Saves |-> 0]
    /\ off = [w \in Saves |-> 0]
    /\ lastLoad = [pc |-> "idle"]
    /\ svc = IdleSvc
    /\ lit = IdleLit
    /\ orf = IdleOrf
    /\ task = [id \in unique_ids |-> IdleTask]
    /\ lk = <<>>
    /\ query = <<>>
    /\ cost = <<>>
    /\ amp = <<>>
    /\ norm = <<>>
    /\ miss = <<>>

\* PricingService::fetch is called: tokio::join! starts both fetches
ServiceFetch ==
    /\ svc.pc = "idle"
    /\ svc' = [pc |-> "join"]
    /\ lit' = [pc |-> "load", reqs |-> 0]
    /\ orf' = [pc |-> "load"]
    /\ UNCHANGED <<now, fs, inode, saveVars, task>>

\* litellm::fetch, lines 23-25: the cache is consulted first
LitLoad ==
    /\ lit.pc = "load"
    /\ LET cached == load_cache(fs, inode, LITELLM_CACHE_FILENAME, now)
       IN  lit' = IF cached.some
                  THEN [pc |-> "done", hit |-> TRUE, reqs |-> lit.reqs,
                        result |-> [ok |-> TRUE, v |-> cached.v]]
                  ELSE [pc |-> "request", hit |-> FALSE, reqs |-> lit.reqs]
    /\ UNCHANGED <<now, fs, inode, saveVars, svc, orf, task>>

\* litellm::fetch, lines 27-37: build the client, GET, decode the body
LitRequest(resp) ==
    /\ lit.pc = "request"
    /\ lit' = IF resp.kind = "builder error"
              THEN [pc |-> "done", hit |-> FALSE, reqs |-> lit.reqs, resp |-> resp,
                    result |-> [ok |-> FALSE]]
              ELSE IF resp.kind = "error" \/ ~resp.body.json
              THEN [pc |-> "done", hit |-> FALSE, reqs |-> lit.reqs + 1, resp |-> resp,
                    result |-> [ok |-> FALSE]]
              ELSE [pc |-> "save", hit |-> FALSE, reqs |-> lit.reqs + 1, resp |-> resp,
                    data |-> resp.body.data]
    /\ UNCHANGED <<now, fs, inode, saveVars, svc, orf, task>>

\* litellm::fetch, lines 39-41: let _ = save_cache(..); Ok(data)
LitSave(ok) ==
    /\ lit.pc = "save"
    /\ LET saved == save_cache(fs, inode, LITELLM_CACHE_FILENAME, now, lit.data, ok)
       IN  fs' = saved.fs /\ inode' = saved.inode
    /\ lit' = [pc |-> "done", hit |-> FALSE, reqs |-> lit.reqs, resp |-> lit.resp,
               saved |-> ok, result |-> [ok |-> TRUE, v |-> lit.data]]
    /\ UNCHANGED <<now, saveVars, svc, orf, task>>

\* fetch_model_endpoints returns value: its locals are dropped; the requests
\* sent, the last response received and the delays slept remain as the
\* trace of the call
finished(t, value) ==
    [pc |-> "done", reqs |-> t.reqs, resp |-> t.resp, slept |-> t.slept,
     result |-> value]

\* the position after the loop body `continue`s: the next attempt, or the
\* end of the loop (lines 137-140)
next_iteration(t) ==
    IF loop_continues(t.attempt + 1)
    THEN [t EXCEPT !.pc = "send", !.attempt = t.attempt + 1]
    ELSE finished(t, None)

\* the future of one id (openrouter.rs:161-169): ids that do not split in
\* two parts yield None without a request
start_task(id) ==
    IF Len(split(id, "/")) = 2
    THEN IF loop_continues(0)
         THEN [pc |-> "send", attempt |-> 0, reqs |-> 0, resp |-> NoResponse,
               slept |-> <<>>, last_error |-> None, result |-> None]
         ELSE finished([reqs |-> 0, resp |-> NoResponse, slept |-> <<>>], None)
    ELSE finished([reqs |-> 0, resp |-> NoResponse, slept |-> <<>>], None)

\* mutant: the cached mapping is found but the fan-out runs all the same
OrLoad_NoReturn ==
    /\ orf.pc = "load"
    /\ LET cached == load_cache(fs, inode, OPENROUTER_CACHE_FILENAME, now)
       IN  /\ orf' = [pc |-> "join_all", hit |-> cached.some]
           /\ task' = [id \in unique_ids |-> start_task(id)]
    /\ UNCHANGED <<now, fs, inode, saveVars, svc, lit>>

\* fetch_all_mapped, lines 144-170: cache first, otherwise the fan-out
OrLoad ==
    /\ orf.pc = "load"
    /\ LET cached == load_cache(fs, inode, OPENROUTER_CACHE_FILENAME, now)
       IN  IF cached.some
           THEN /\ orf' = [pc |-> "done", hit |-> TRUE, result |-> cached.v]
                /\ task' = task
           ELSE /\ orf' = [pc |-> "join_all", hit |-> FALSE]
                /\ task' = [id \in unique_ids |-> start_task(id)]
    /\ UNCHANGED <<now, fs, inode, saveVars, svc, lit>>

\* fetch_model_endpoints: one GET and what the loop body does with it
TaskSend(id, resp) ==
    /\ task[id].pc = "send"
    /\ LET author == split(id, "/")[1]
           t      == [task[id] EXCEPT !.reqs = @ + 1, !.resp = resp]
           out    == attempt_outcome(author, t.attempt, resp)
       IN  task' = [task EXCEPT ![id] =
             IF out.kind = "return"
             THEN finished(t, out.value)
             ELSE IF out.sleep.some
             THEN [t EXCEPT !.pc = "sleep", !.last_error = Some(out.last_error),
                            !.slept = Append(@, out.sleep.v)]
             ELSE next_iteration([t EXCEPT !.last_error = Some(out.last_error)])]
    /\ UNCHANGED <<now, fs, inode, saveVars, svc, lit, orf>>

\* the backoff sleep is over
TaskWake(id) ==
    /\ task[id].pc = "sleep"
    /\ task' = [task EXCEPT ![id] = next_iteration(@)]
    /\ UNCHANGED <<now, fs, inode, saveVars, svc, lit, orf>>

\* mutant: one failed future empties the whole mapping
merge_results_all_or_nothing(tasks) ==
    IF \A id \in DOMAIN tasks : tasks[id].result.some
    THEN [id \in DOMAIN tasks |-> tasks[id].result.v]
    ELSE <<>>

\* the mapping of the ids whose future gave Some (lines 172-176)
merge_results(tasks) ==
    LET ok == {id \in DOMAIN tasks : tasks[id].result.some}
    IN  [id \in ok |-> tasks[id].result.v]

\* mutant: the merged mapping is saved whether or not it is empty
OrJoin_AlwaysSave ==
    /\ orf.pc = "join_all"
    /\ \A id \in unique_ids : task[id].pc = "done"
    /\ orf' = [pc |-> "save", hit |-> FALSE, result |-> merge_results(task)]
    /\ UNCHANGED <<now, fs, inode, saveVars, svc, lit, task>>

\* fetch_all_mapped, lines 172-180: join_all has every result; the save is
\* skipped when the merged mapping is empty
OrJoin ==
    /\ orf.pc = "join_all"
    /\ \A id \in unique_ids : task[id].pc = "done"
    /\ LET result == merge_results(task)
       IN  orf' = IF result # <<>>
                  THEN [pc |-> "save", hit |-> FALSE, result |-> result]
                  ELSE [pc |-> "done", hit |-> FALSE, result |-> result]
    /\ UNCHANGED <<now, fs, inode, saveVars, svc, lit, task>>

\* fetch_all_mapped, lines 178-182: let _ = save_cache(..); result
OrSave(ok) ==
    /\ orf.pc = "save"
    /\ LET saved == save_cache(fs, inode, OPENROUTER_CACHE_FILENAME, now, orf.result, ok)
       IN  fs' = saved.fs /\ inode' = saved.inode
    /\ orf' = [orf EXCEPT !.pc = "done"]
    /\ UNCHANGED <<now, saveVars, svc, lit, task>>

\* mutant: an empty per-endpoint mapping fails the construction too
service_result_strict(litellm_result, openrouter_data) ==
    IF litellm_result.ok /\ openrouter_data # <<>>
    THEN [ok |-> TRUE, litellm |-> litellm_result.v, openrouter |-> openrouter_data]
    ELSE [ok |-> FALSE]

\* mod.rs:29-31  litellm_result.map_err(..)?; Ok(Self::new(..))
service_result(litellm_result, openrouter_data) ==
    IF litellm_result.ok
    THEN [ok |-> TRUE, litellm |-> litellm_result.v, openrouter |-> openrouter_data]
    ELSE [ok |-> FALSE]

\* PricingService::fetch: both futures of tokio::join! are complete
ServiceJoin ==
    /\ svc.pc = "join"
    /\ lit.pc = "done"
    /\ orf.pc = "done"
    /\ svc' = [pc |-> "done", result |-> service_result(lit.result, orf.result)]
    /\ UNCHANGED <<now, fs, inode, saveVars, lit, orf, task>>

\* the clock moves during the run
FetchTick(t) ==
    /\ t > now
    /\ now' = t
    /\ UNCHANGED <<fs, inode, saveVars, fetchVars>>

\* a caller other than PricingService::fetch calls fetch_all_mapped
FetchAllMapped ==
    /\ svc.pc = "idle"
    /\ orf.pc = "idle"
    /\ orf' = [pc |-> "load"]
    /\ UNCHANGED <<now, fs, inode, saveVars, svc, lit, task>>

\* fetch_all_mapped has returned to that caller
FetchAllMappedReturn ==
    /\ svc.pc = "idle"
    /\ orf.pc = "done"
    /\ orf' = IdleOrf
    /\ task' = [id \in unique_ids |-> IdleTask]
    /\ UNCHANGED <<now, fs, inode, saveVars, svc, lit>>

\* one response of each kind: transient, permanent, and a good body for
\* each id
ServiceResponses ==
    {NetworkError, Http(404, BadJson), Http(200, BodyAnthropic), Http(200, BodyXai)}

\* PricingService::fetch, once
Next ==
    /\ \/ ServiceFetch
       \/ LitLoad
       \/ \E resp \in BulkResponses : LitRequest(resp)
       \/ \E ok \in BOOLEAN : LitSave(ok)
       \/ OrLoad
       \/ \E id \in unique_ids, resp \in ServiceResponses : TaskSend(id, resp)
       \/ \E id \in unique_ids : TaskWake(id)
       \/ OrJoin
       \/ \E ok \in BOOLEAN : OrSave(ok)
       \/ ServiceJoin
       \/ \E t \in StartNow..(StartNow + MaxSmall) : FetchTick(t)
    /\ UNCHANGED <<lookupVars, callVars>>

Spec == InitFetch /\ [][Next]_vars

\* fetch_all_mapped called on its own, again and again, with every response
NextEndpoints ==
    /\ \/ FetchAllMapped
       \/ OrLoad
       \/ \E id \in unique_ids, resp \in Responses : TaskSend(id, resp)
       \/ \E id \in unique_ids : TaskWake(id)
       \/ OrJoin
       \/ \E ok \in BOOLEAN : OrSave(ok)
       \/ FetchAllMappedReturn
       \/ \E t \in StartNow..(StartNow + MaxSmall) : FetchTick(t)
    /\ UNCHANGED <<lookupVars, callVars>>

SpecEndpoints == InitFetch /\ [][NextEndpoints]_vars

(***************************************************************************)
(* pricing/lookup.rs                                                       *)
(***************************************************************************)
\* mutant: the prefixes in another order
PROVIDER_PREFIXES_reversed ==
    <<"openrouter/", "bedrock/", "google/", "openai/", "anthropic/">>

PROVIDER_PREFIXES == <<"anthropic/", "openai/", "google/", "bedrock/", "openrouter/">>

\* alias map from informal ids to canonical bulk-dataset keys (aliases.rs is
\* not among the sources; sample entry)
MODEL_ALIASES == [m \in {"sonnet-latest"} |-> "claude-sonnet-4-5"]

\* aliases::resolve_alias
resolve_alias(model_id) ==
    IF model_id \in DOMAIN MODEL_ALIASES THEN Some(MODEL_ALIASES[model_id]) ELSE None

\* the order of String: byte by byte
AsciiOrder ==
    Chars(" -./0123456789:@ABCDEFGHIJKLMNOPQRSTUVWXYZ_abcdefghijklmnopqrstuvwxyz")
CharCode == [c \in {AsciiOrder[i] : i \in 1..Len(AsciiOrder)} |->
                CHOOSE i \in 1..Len(AsciiOrder) : AsciiOrder[i] = c]

RECURSIVE StrLess(_, _)
StrLess(a, b) ==
    IF b = "" THEN FALSE
    ELSE IF a = "" THEN TRUE
    ELSE LET ca == CharCode[SubSeq(a, 1, 1)]
             cb == CharCode[SubSeq(b, 1, 1)]
         IN  IF ca # cb THEN ca < cb
             ELSE StrLess(SubSeq(a, 2, Len(a)), SubSeq(b, 2, Len(b)))

\* keys().cloned().collect() followed by sort()
RECURSIVE sorted(_)
sorted(keys) ==
    IF keys = {} THEN <<>>
    ELSE LET least == CHOOSE k \in keys : \A o \in keys \ {k} : StrLess(k, o)
         IN  <<least>> \o sorted(keys \ {least})

\* PricingLookup::new
PricingLookup(litellm, openrouter) ==
    [litellm |-> litellm, openrouter |-> openrouter,
     sorted_keys |-> sorted(DOMAIN litellm)]

LookupResult(pricing, source, matched_key) ==
    [pricing |-> pricing, source |-> source, matched_key |-> matched_key]

normalize_model_name(model_id) ==
    LET lower == to_lowercase(model_id)
        v45   == contains(lower, "4.5") \/ contains(lower, "4-5")
    IN  IF contains(lower, "opus") /\ v45 THEN Some("opus-4-5")
        ELSE IF contains(lower, "opus") /\ contains(lower, "4") THEN Some("opus-4")
        ELSE IF contains(lower, "sonnet") /\ v45 THEN Some("sonnet-4-5")
        ELSE IF contains(lower, "sonnet") /\ contains(lower, "4") THEN Some("sonnet-4")
        ELSE IF contains(lower, "sonnet")
                /\ (contains(lower, "3.7") \/ contains(lower, "3-7"))
             THEN Some("sonnet-3-7")
        ELSE IF contains(lower, "sonnet")
                /\ (contains(lower, "3.5") \/ contains(lower, "3-5"))
             THEN Some("sonnet-3-5")
        ELSE IF contains(lower, "haiku") /\ v45 THEN Some("haiku-4-5")
        ELSE IF lower = "o3" THEN Some("o3")
        ELSE IF starts_with(lower, "gpt-4o") \/ lower = "gpt-4o" THEN Some("gpt-4o")
        ELSE IF starts_with(lower, "gpt-4.1") \/ contains(lower, "gpt-4.1")
             THEN Some("gpt-4.1")
        ELSE IF contains(lower, "gemini-2.5-pro") THEN Some("gemini-2.5-pro")
        ELSE IF contains(lower, "gemini-2.5-flash") THEN Some("gemini-2.5-flash")
        ELSE None

is_word_boundary_match(haystack, needle) ==
    LET f == find(haystack, needle)
    IN  IF f.some
        THEN LET pos == f.v
                 before_ok ==
                    pos = 0 \/ ~is_alphanumeric(SubSeq(haystack, pos, pos))
                 after_ok ==
                    \/ pos + Len(needle) = Len(haystack)
                    \/ ~is_alphanumeric(SubSeq(haystack, pos + Len(needle) + 1,
                                                pos + Len(needle) + 1))
             IN  before_ok /\ after_ok
        ELSE FALSE

\* the first of the indices at which a loop in index order returns
FirstIndex(hits) ==
    IF hits = {} THEN None ELSE Some(CHOOSE i \in hits : \A j \in hits : i <= j)

fuzzy_match_litellm(self, model_id) ==
    LET lower == to_lowercase(model_id)
        normalized == normalize_model_name(model_id)
        lower_normalized ==
            IF normalized.some THEN Some(to_lowercase(normalized.v)) ELSE None
        Matches(i) ==
            LET lower_key == to_lowercase(self.sorted_keys[i])
            IN  \/ is_word_boundary_match(lower_key, lower)
                \/ lower_normalized.some
                     /\ is_word_boundary_match(lower_key, lower_normalized.v)
        hit == FirstIndex({i \in 1..Len(self.sorted_keys) : Matches(i)})
    IN  IF hit.some
        THEN Some(LookupResult(self.litellm[self.sorted_keys[hit.v]], "litellm",
                               self.sorted_keys[hit.v]))
        ELSE None

\* lines 49-58 and 68-77: the first prefix whose prefixed key is in litellm
prefixed_match(self, name) ==
    LET InBulk(i) == (PROVIDER_PREFIXES[i] \o name) \in DOMAIN self.litellm
        hit == FirstIndex({i \in 1..Len(PROVIDER_PREFIXES) : InBulk(i)})
    IN  IF hit.some
        THEN Some(LookupResult(self.litellm[PROVIDER_PREFIXES[hit.v] \o name],
                               "litellm", PROVIDER_PREFIXES[hit.v] \o name))
        ELSE None

\* lines 41-47 and 61-67: the key itself is in litellm
exact_match(self, name) ==
    IF name \in DOMAIN self.litellm
    THEN Some(LookupResult(self.litellm[name], "litellm", name))
    ELSE None

\* mutant: the fuzzy scan comes before the normalized form is tried
lookup_litellm_fuzzy_early(self, model_id) ==
    IF exact_match(self, model_id).some THEN exact_match(self, model_id)
    ELSE IF prefixed_match(self, model_id).some THEN prefixed_match(self, model_id)
    ELSE fuzzy_match_litellm(self, model_id)

\* lines 40-81
lookup_litellm(self, model_id) ==
    IF exact_match(self, model_id).some THEN exact_match(self, model_id)
    ELSE IF prefixed_match(self, model_id).some THEN prefixed_match(self, model_id)
    ELSE LET normalized == normalize_model_name(model_id)
         IN  IF normalized.some /\ exact_match(self, normalized.v).some
             THEN exact_match(self, normalized.v)
             ELSE IF normalized.some /\ prefixed_match(self, normalized.v).some
             THEN prefixed_match(self, normalized.v)
             ELSE fuzzy_match_litellm(self, model_id)

\* mutant: the result names the model id, not the key that was read
lookup_openrouter_model_key(self, model_id) ==
    LET or_id == get_openrouter_id(model_id)
    IN  IF ~or_id.some THEN None
        ELSE IF or_id.v \notin DOMAIN self.openrouter THEN None
        ELSE Some(LookupResult(self.openrouter[or_id.v], "openrouter", model_id))

\* lines 111-120
lookup_openrouter(self, model_id) ==
    LET or_id == get_openrouter_id(model_id)
    IN  IF ~or_id.some THEN None
        ELSE IF or_id.v \notin DOMAIN self.openrouter THEN None
        ELSE Some(LookupResult(self.openrouter[or_id.v], "openrouter", or_id.v))

lookup(self, model_id) ==
    LET alias == resolve_alias(model_id)
        canonical == IF alias.some THEN alias.v ELSE model_id
    IN  IF lookup_litellm(self, canonical).some THEN lookup_litellm(self, canonical)
        ELSE IF lookup_openrouter(self, canonical).some
             THEN lookup_openrouter(self, canonical)
        ELSE None

(***************************************************************************)
(* The resolver on bounded inputs                                          *)
(***************************************************************************)
MaxBulkKeys == 3       \* keys of the bulk dataset

BulkKeys ==
    <<"gpt-4o", "openai/gpt-4o", "openrouter/gpt-4o", "Azure/gpt-4o-mini",
      "chatgpt-4o/gpt-4o", "sonnet-4-5", "anthropic/sonnet-4-5",
      "anthropic/claude-sonnet-4-5", "claude-sonnet-4-5-20250101",
      "xai/grok-3-mini">>

ModelIds ==
    {"gpt-4o", "GPT-4o", "gpt-4", "claude-sonnet-4-5-20250101", "sonnet-latest",
     "claude-sonnet-4-5", "grok-3", "o3", "mini"}

\* every key has its own rates
PricingAt(i) == ModelPricing(Some(Finite(i)), Some(Finite(10 * i)), None, None)

BulkDatasets ==
    {[k \in {BulkKeys[i] : i \in I} |->
          PricingAt(CHOOSE i \in I : BulkKeys[i] = k)] :
        I \in {J \in SUBSET (1..Len(BulkKeys)) : Cardinality(J) <= MaxBulkKeys}}

EndpointDatasets ==
    {[k \in K |-> ModelPricing(Some(Finite(1000)), Some(Finite(2000)), None, None)] :
        K \in SUBSET unique_ids}

InitLookup ==
    /\ now = StartNow
    /\ fs = <<>>
    /\ inode = <<>>
    /\ pc = <<>>
    /\ content = <<>>
    /\ fd = <<>>
    /\ off = <<>>
    /\ lastLoad = [pc |-> "idle"]
    /\ svc = IdleSvc
    /\ lit = IdleLit
    /\ orf = IdleOrf
    /\ task = <<>>
    /\ \E l \in BulkDatasets, o \in EndpointDatasets : lk = PricingLookup(l, o)
    /\ query = [called |-> FALSE]
    /\ cost = <<>>
    /\ amp = <<>>
    /\ norm = <<>>
    /\ miss = <<>>

\* PricingLookup::lookup(model_id)
Lookup(model_id) ==
    /\ query' = [called |-> TRUE, model_id |-> model_id, result |-> lookup(lk, model_id)]
    /\ UNCHANGED <<cacheVars, fetchVars, lk, callVars>>

NextLookup == \E model_id \in ModelIds : Lookup(model_id)

SpecLookup == InitLookup /\ [][NextLookup]_vars

(***************************************************************************)
(* normalize_model_name on ids composed of a provider prefix, a family, a  *)
(* version marker and a release suffix, in either order of family and      *)
(* version.                                                                *)
(***************************************************************************)
IdPrefixes == {"", "claude-", "Claude-", "anthropic/claude-"}
IdFamilies == {"sonnet", "opus", "haiku"}
IdVersions == {"3", "3-5", "3.5", "3-7", "3.7", "4", "4-1", "4-5", "4.5"}
IdSuffixes == {"", "-latest", "-20250219", "-20241022"}

\* "claude-3-5-sonnet-20241022" and "claude-sonnet-4-5" are both in use
compose_id(prefix, family, version, suffix, version_first) ==
    IF version_first
    THEN prefix \o version \o "-" \o family \o suffix
    ELSE prefix \o family \o "-" \o version \o suffix

InitNormalize ==
    /\ now = StartNow
    /\ fs = <<>>
    /\ inode = <<>>
    /\ pc = <<>>
    /\ content = <<>>
    /\ fd = <<>>
    /\ off = <<>>
    /\ lastLoad = [pc |-> "idle"]
    /\ svc = IdleSvc
    /\ lit = IdleLit
    /\ orf = IdleOrf
    /\ task = <<>>
    /\ lk = <<>>
    /\ query = <<>>
    /\ cost = <<>>
    /\ amp = <<>>
    /\ norm = [called |-> FALSE]
    /\ miss = <<>>

\* normalize_model_name(model_id)
NormalizeModelName(prefix, family, version, suffix, version_first) ==
    /\ ~norm.called
    /\ LET model_id == compose_id(prefix, family, version, suffix, version_first)
       IN  norm' = [called |-> TRUE, model_id |-> model_id, family |-> family,
                    version |-> version, suffix |-> suffix,
                    result |-> normalize_model_name(model_id)]
    /\ UNCHANGED <<cacheVars, fetchVars, lookupVars, cost, amp, miss>>

\* the caller has consumed the result
NormalizeDone ==
    /\ norm.called
    /\ norm' = [called |-> FALSE]
    /\ UNCHANGED <<cacheVars, fetchVars, lookupVars, cost, amp, miss>>

NextNormalize ==
    \/ NormalizeDone
    \/ /\ ~norm.called
       /\ \E prefix \in IdPrefixes, family \in IdFamilies, version \in IdVersions,
             suffix \in IdSuffixes, version_first \in BOOLEAN :
            NormalizeModelName(prefix, family, version, suffix, version_first)

SpecNormalize == InitNormalize /\ [][NextNormalize]_vars

(***************************************************************************)
(* openrouter::fetch_missing (openrouter.rs:185-205): the ids of the list  *)
(* are fetched one after the other; the caller then resolves a model id in *)
(* a PricingLookup whose per-endpoint dataset is the mapping returned.     *)
(***************************************************************************)
MaxMissing == 2        \* length of the model_ids list

MissingIds == {"grok-3", "sonnet-4-5", "x-ai/grok-3", "gpt-4o"}

MissingLists == UNION {[1..n -> MissingIds] : n \in 0..MaxMissing}

IdleMiss == [pc |-> "idle"]

\* HashMap::insert: the key is bound to the value, replacing an earlier one
insert(map, key, value) ==
    [k \in DOMAIN map \cup {key} |-> IF k = key THEN value ELSE map[k]]

InitMissing ==
    /\ now = StartNow
    /\ \E l \in InitialFiles(BulkOld), o \in InitialFiles(EndpointsOld) :
         /\ fs = [p \in FetchPaths |->
                    IF p = final_path(LITELLM_CACHE_FILENAME)
                    THEN (IF l.some THEN 1 ELSE 0)
                    ELSE (IF o.some THEN 2 ELSE 0)]
         /\ inode = <<IF l.some THEN l.v ELSE <<>>, IF o.some THEN o.v ELSE <<>> >>
    /\ pc = [w \in Saves |-> "idle"]
    /\ content = [w \in Saves |-> <<>>]
    /\ fd = [w \in Saves |-> 0]
    /\ off = [w \in Saves |-> 0]
    /\ lastLoad = [pc |-> "idle"]
    /\ svc = IdleSvc
    /\ lit = IdleLit
    /\ orf = IdleOrf
    /\ task = <<>>
    /\ lk = <<>>
    /\ query = [called |-> FALSE]
    /\ cost = <<>>
    /\ amp = <<>>
    /\ norm = <<>>
    /\ miss = IdleMiss

\* fetch_missing(model_ids) is called: lines 186-191
FetchMissing(model_ids) ==
    /\ miss.pc = "idle"
    /\ miss' = [pc |-> "loop", model_ids |-> model_ids, i |-> 1, result |-> <<>>,
                sent |-> <<>>, fetched |-> <<>>, task |-> IdleTask]
    /\ query' = [called |-> FALSE]
    /\ UNCHANGED <<cacheVars, fetchVars, lk, cost, amp, norm>>

\* the head of one loop iteration, lines 193-196: an id without a mapping,
\* or whose mapping does not split in two parts, is skipped
MissNext ==
    /\ miss.pc = "loop"
    /\ IF miss.i > Len(miss.model_ids)
       THEN miss' = [miss EXCEPT !.pc = "done"]
       ELSE LET or_id == get_openrouter_id(miss.model_ids[miss.i])
            IN  IF or_id.some /\ Len(split(or_id.v, "/")) = 2
                THEN miss' = [miss EXCEPT !.pc = "fetch", !.task = start_task(or_id.v)]
                ELSE miss' = [miss EXCEPT !.i = @ + 1]
    /\ UNCHANGED <<cacheVars, fetchVars, lookupVars, cost, amp, norm>>

\* fetch_model_endpoints(&client, parts[0], parts[1]): one GET
MissSend(resp) ==
    /\ miss.pc = "fetch"
    /\ miss.task.pc = "send"
    /\ LET or_id  == get_openrouter_id(miss.model_ids[miss.i]).v
           author == split(or_id, "/")[1]
           t      == [miss.task EXCEPT !.reqs = @ + 1, !.resp = resp]
           out    == attempt_outcome(author, t.attempt, resp)
       IN  miss' = [miss EXCEPT
             !.sent = Append(@, [i |-> miss.i, or_id |-> or_id]),
             !.task =
                IF out.kind = "return"
                THEN finished(t, out.value)
                ELSE IF out.sleep.some
                THEN [t EXCEPT !.pc = "sleep", !.last_error = Some(out.last_error),
                               !.slept = Append(@, out.sleep.v)]
                ELSE next_iteration([t EXCEPT !.last_error = Some(out.last_error)])]
    /\ UNCHANGED <<cacheVars, fetchVars, lookupVars, cost, amp, norm>>

\* the backoff sleep is over
MissWake ==
    /\ miss.pc = "fetch"
    /\ miss.task.pc = "sleep"
    /\ miss' = [miss EXCEPT !.task = next_iteration(@)]
    /\ UNCHANGED <<cacheVars, fetchVars, lookupVars, cost, amp, norm>>

\* lines 197-199: if let Some(pricing) = .. { result.insert(model_id.clone(), pricing) }
MissInsert ==
    /\ miss.pc = "fetch"
    /\ miss.task.pc = "done"
    /\ LET model_id == miss.model_ids[miss.i]
           pricing  == miss.task.result
       IN  miss' = [miss EXCEPT
             !.pc = "loop",
             !.i = @ + 1,
             !.task = IdleTask,
             !.result = IF pricing.some THEN insert(@, model_id, pricing.v) ELSE @,
             !.fetched = IF pricing.some
                         THEN Append(@, [model_id |-> model_id, pricing |-> pricing.v])
                         ELSE @]
    /\ UNCHANGED <<cacheVars, fetchVars, lookupVars, cost, amp, norm>>

\* the caller resolves a model id with the mapping returned (line 204) as the
\* per-endpoint dataset
MissLookup(model_id) ==
    /\ miss.pc = "done"
    /\ ~query.called
    /\ lk' = PricingLookup(<<>>, miss.result)
    /\ query' = [called |-> TRUE, model_id |-> model_id,
                 result |-> lookup(PricingLookup(<<>>, miss.result), model_id)]
    /\ UNCHANGED <<cacheVars, fetchVars, callVars>>

NextMissing ==
    \/ \E model_ids \in MissingLists : FetchMissing(model_ids)
    \/ MissNext
    \/ \E resp \in ServiceResponses : MissSend(resp)
    \/ MissWake
    \/ MissInsert
    \/ \E model_id \in MissingIds : MissLookup(model_id)

SpecMissing == InitMissing /\ [][NextMissing]_vars

(***************************************************************************)
(* calculate_cost (pricing/lookup.rs).  i64 is modelled as a two's         *)
(* complement integer of WordBits bits.  An f64 amount is Finite(n) with n *)
(* in units of 1e-7 USD, as the rates are; products and sums of the values *)
(* used here are exact in that unit.                                       *)
(***************************************************************************)
WordBits == 12         \* width of the modelled i64

RECURSIVE pow2(_)
pow2(n) == IF n = 0 THEN 1 ELSE 2 * pow2(n - 1)

I64_MAX == pow2(WordBits - 1) - 1
I64_MIN == -pow2(WordBits - 1)

\* the value of a + b in two's complement
wrapping_add(a, b) == ((a + b - I64_MIN) % pow2(WordBits)) + I64_MIN

overflows(n) == n < I64_MIN \/ n > I64_MAX

\* Option<f64>::unwrap_or(0.0)
unwrap_or_zero(rate) == IF rate.some THEN rate.v ELSE Finite(0)

\* n as f64 * rate
f64_mul(n, rate) == IF is_finite(rate) THEN Finite(n * rate.v) ELSE NaN

f64_add(a, b) == IF is_finite(a) /\ is_finite(b) THEN Finite(a.v + b.v) ELSE NaN

Panic == [kind |-> "panic"]
Returned(v) == [kind |-> "value", v |-> v]

\* `overflow_checks` is the build profile: with it an overflowing + panics,
\* without it the sum wraps
calculate_cost(self, model_id, input, output, cache_read, cache_write, reasoning, overflow_checks) ==
    LET result == lookup(self, model_id)
    IN  IF ~result.some THEN Returned(Finite(0))
        ELSE IF overflows(output + reasoning) /\ overflow_checks THEN Panic
        ELSE LET p == result.v.pricing
                 input_cost == f64_mul(input, unwrap_or_zero(p.input_cost_per_token))
                 output_cost ==
                     f64_mul(wrapping_add(output, reasoning),
                             unwrap_or_zero(p.output_cost_per_token))
                 cache_read_cost ==
                     f64_mul(cache_read, unwrap_or_zero(p.cache_read_input_token_cost))
                 cache_write_cost ==
                     f64_mul(cache_write,
                             unwrap_or_zero(p.cache_creation_input_token_cost))
             IN  Returned(f64_add(f64_add(f64_add(input_cost, output_cost),
                                          cache_read_cost), cache_write_cost))

TokenCounts == {0, 100, 200, 500, 1000, I64_MAX}

\* rates of 0.000003, 0.000015, 0.0000003 and 0.00000375 USD per token, some absent
CostPricings ==
    {ModelPricing(None, None, None, None),
     ModelPricing(Some(Finite(30)), Some(Finite(150)), None, None),
     ModelPricing(Some(Finite(30)), Some(Finite(150)), None, Some(Finite(3))),
     ModelPricing(Some(Finite(30)), Some(Finite(150)), Some(Finite(37)), Some(Finite(3)))}

CostDatasets == {<<>>} \cup {[k \in {"gpt-4o"} |-> p] : p \in CostPricings}

CostModelIds == {"gpt-4o", "unknown-model"}

InitCost ==
    /\ now = StartNow
    /\ fs = <<>>
    /\ inode = <<>>
    /\ pc = <<>>
    /\ content = <<>>
    /\ fd = <<>>
    /\ off = <<>>
    /\ lastLoad = [pc |-> "idle"]
    /\ svc = IdleSvc
    /\ lit = IdleLit
    /\ orf = IdleOrf
    /\ task = <<>>
    /\ \E l \in CostDatasets : lk = PricingLookup(l, <<>>)
    /\ query = [called |-> FALSE]
    /\ cost = [called |-> FALSE]
    /\ amp = <<>>
    /\ norm = <<>>
    /\ miss = <<>>

\* PricingLookup::calculate_cost(model_id, input, output, cache_read,
\* cache_write, reasoning)
CalculateCost(model_id, input, output, cache_read, cache_write, reasoning, overflow_checks) ==
    /\ ~cost.called
    /\ cost' = [called |-> TRUE, model_id |-> model_id, input |-> input,
                output |-> output, cache_read |-> cache_read,
                cache_write |-> cache_write, reasoning |-> reasoning,
                result |-> calculate_cost(lk, model_id, input, output, cache_read,
                                          cache_write, reasoning, overflow_checks)]
    /\ UNCHANGED <<cacheVars, fetchVars, lookupVars, amp, norm, miss>>

\* the caller has consumed the cost
CostDone ==
    /\ cost.called
    /\ cost' = [called |-> FALSE]
    /\ UNCHANGED <<cacheVars, fetchVars, lookupVars, amp, norm, miss>>

NextCost ==
    \/ CostDone
    \/ /\ ~cost.called
       /\ \E model_id \in CostModelIds, input \in TokenCounts, output \in TokenCounts,
             cache_read \in TokenCounts, cache_write \in TokenCounts,
             reasoning \in TokenCounts, overflow_checks \in BOOLEAN :
            CalculateCost(model_id, input, output, cache_read, cache_write,
                          reasoning, overflow_checks)

SpecCost == InitCost /\ [][NextCost]_vars

(***************************************************************************)
(* sessions/amp.rs.  Epoch milliseconds are i64 values of WordBits bits.   *)
(***************************************************************************)
MaxEvents == 2         \* events of a usage ledger
MaxMessages == 2       \* messages of a thread

wrapping_mul(a, b) == ((a * b - I64_MIN) % pow2(WordBits)) + I64_MIN

\* what std::fs::read and simd_json::from_slice make of a file
Unreadable == [kind |-> "unreadable"]
NotJson == [kind |-> "bytes"]
WrongShape == [kind |-> "json"]

AmpTokens(input, output) == [input |-> input, output |-> output]

AmpUsageEvent(timestamp, model, credits, tokens) ==
    [timestamp |-> timestamp, model |-> model, credits |-> credits, tokens |-> tokens]

AmpMessageUsage(model, input_tokens, output_tokens, cache_read_input_tokens, cache_creation_input_tokens, credits) ==
    [model |-> model, input_tokens |-> input_tokens, output_tokens |-> output_tokens,
     cache_read_input_tokens |-> cache_read_input_tokens,
     cache_creation_input_tokens |-> cache_creation_input_tokens,
     credits |-> credits]

AmpMessage(role, message_id, usage) ==
    [role |-> role, message_id |-> message_id, usage |-> usage]

AmpUsageLedger(events) == [events |-> events]

AmpThread(id, created, messages, usage_ledger) ==
    [kind |-> "thread", id |-> id, created |-> created, messages |-> messages,
     usage_ledger |-> usage_ledger]

\* chrono::DateTime::parse_from_rfc3339(..).ok().map(|dt| dt.timestamp_millis())
parse_from_rfc3339_millis(ts) ==
    CASE ts = "1970-01-01T00:00:00Z"      -> Some(0)
      [] ts = "1970-01-01T00:00:00.007Z"  -> Some(7)
      [] ts = "1970-01-01T00:00:01+00:00" -> Some(1000)
      [] ts = "1969-12-31T23:59:59Z"      -> Some(-1000)
      [] OTHER                            -> None

get_provider_from_model(model) ==
    LET model_lower == to_lowercase(model)
    IN  IF \/ contains(model_lower, "claude") \/ contains(model_lower, "opus")
           \/ contains(model_lower, "sonnet") \/ contains(model_lower, "haiku")
        THEN "anthropic"
        ELSE IF \/ contains(model_lower, "gpt") \/ contains(model_lower, "o1")
                \/ contains(model_lower, "o3")
        THEN "openai"
        ELSE IF contains(model_lower, "gemini") THEN "google"
        ELSE IF contains(model_lower, "grok") THEN "xai"
        ELSE "anthropic"

TokenBreakdown(input, output, cache_read, cache_write, reasoning) ==
    [input |-> input, output |-> output, cache_read |-> cache_read,
     cache_write |-> cache_write, reasoning |-> reasoning]

UnifiedMessage(source_tool, model, provider, session_id, timestamp_ms, tokens, reported_cost) ==
    [source_tool |-> source_tool, model |-> model, provider |-> provider,
     session_id |-> session_id, timestamp_ms |-> timestamp_ms, tokens |-> tokens,
     reported_cost |-> reported_cost]

unwrap_or(opt, default) == IF opt.some THEN opt.v ELSE default

\* Path::file_stem: the last component of the path without its last extension
file_stem(path) ==
    LET cs      == Chars(path)
        slashes == {i \in 1..Len(path) : cs[i] = "/"}
        start   == IF slashes = {} THEN 1
                   ELSE 1 + CHOOSE i \in slashes : \A j \in slashes : j <= i
        dots    == {i \in (start + 1)..Len(path) : cs[i] = "."}
        end     == IF dots = {} THEN Len(path)
                   ELSE (CHOOSE i \in dots : \A j \in dots : j <= i) - 1
    IN  SubSeq(path, start, end)

\* lines 99-107
thread_id(thread, path) ==
    IF thread.id.some THEN thread.id.v
    ELSE IF file_stem(path) = "" THEN "unknown" ELSE file_stem(path)

\* lines 115-149: the message an event becomes, if any
ledger_message(event, session_id) ==
    IF ~event.model.some THEN None
    ELSE LET parsed == IF event.timestamp.some
                       THEN parse_from_rfc3339_millis(event.timestamp.v) ELSE None
             timestamp == unwrap_or(parsed, 0)
             tokens == unwrap_or(event.tokens, AmpTokens(Some(0), Some(0)))
         IN  IF timestamp = 0 THEN None
             ELSE Some(UnifiedMessage("amp", event.model.v,
                                      get_provider_from_model(event.model.v),
                                      session_id, timestamp,
                                      TokenBreakdown(unwrap_or(tokens.input, 0),
                                                     unwrap_or(tokens.output, 0),
                                                     0, 0, 0),
                                      unwrap_or(event.credits, Finite(0))))

\* line 175 in a build without overflow checks
message_timestamp(created, message_id) ==
    wrapping_add(created, wrapping_mul(message_id, 1000))

\* line 175 in a build with overflow checks panics on these
timestamp_overflows(created, message_id) ==
    \/ overflows(message_id * 1000)
    \/ overflows(created + message_id * 1000)

\* lines 159-171: the message is an assistant turn with usage and a model
has_usage_model(msg) ==
    /\ msg.role = Some("assistant")
    /\ msg.usage.some
    /\ msg.usage.v.model.some

\* lines 174-191
fallback_message(msg, created, session_id) ==
    LET usage == msg.usage.v
        message_id == unwrap_or(msg.message_id, 0)
    IN  UnifiedMessage("amp", usage.model.v, get_provider_from_model(usage.model.v),
                       session_id, message_timestamp(created, message_id),
                       TokenBreakdown(unwrap_or(usage.input_tokens, 0),
                                      unwrap_or(usage.output_tokens, 0),
                                      unwrap_or(usage.cache_read_input_tokens, 0),
                                      unwrap_or(usage.cache_creation_input_tokens, 0),
                                      0),
                       unwrap_or(usage.credits, Finite(0)))

RECURSIVE flatten_some(_)
flatten_some(opts) ==
    IF opts = <<>> THEN <<>>
    ELSE (IF Head(opts).some THEN <<Head(opts).v>> ELSE <<>>) \o flatten_some(Tail(opts))

\* mutant: a ledger without events does not count as the usage source
uses_ledger_nonempty(file) ==
    /\ file.usage_ledger.some
    /\ file.usage_ledger.v.events.some
    /\ file.usage_ledger.v.events.v # <<>>

\* lines 112-113: if let Some(ledger) .. if let Some(events) ..
uses_ledger(file) ==
    /\ file.usage_ledger.some
    /\ file.usage_ledger.v.events.some

\* `overflow_checks` is the build profile
parse_amp_file(file, path, overflow_checks) ==
    IF file.kind # "thread" THEN Returned(<<>>)
    ELSE LET session_id == thread_id(file, path)
         IN  IF uses_ledger(file)
             THEN LET events == file.usage_ledger.v.events.v
                  IN  Returned(flatten_some([i \in 1..Len(events) |->
                                    ledger_message(events[i], session_id)]))
             ELSE LET created == unwrap_or(file.created, 0)
                      msgs == unwrap_or(file.messages, <<>>)
                      kept == SelectSeq(msgs, has_usage_model)
                  IN  IF overflow_checks
                         /\ \E i \in 1..Len(kept) :
                               timestamp_overflows(created,
                                                   unwrap_or(kept[i].message_id, 0))
                      THEN Panic
                      ELSE Returned([i \in 1..Len(kept) |->
                                        fallback_message(kept[i], created, session_id)])

AmpEvents ==
    {AmpUsageEvent(ts, m, c, t) :
        ts \in {None, Some("yesterday"), Some("1970-01-01T00:00:00Z"),
                Some("1970-01-01T00:00:00.007Z")},
        m \in {None, Some("claude-sonnet-4")},
        c \in {None},
        t \in {Some(AmpTokens(Some(10), None))}}
      \cup {AmpUsageEvent(Some("1970-01-01T00:00:01+00:00"), Some("gpt-5"),
                          Some(Finite(25)), None),
            AmpUsageEvent(Some("1969-12-31T23:59:59Z"), Some("amp-internal"),
                          None, Some(AmpTokens(None, Some(4))))}

AmpMessages ==
    {AmpMessage(Some("user"), Some(0), None),
     AmpMessage(None, Some(1), Some(AmpMessageUsage(Some("grok-3"), None, None, None,
                                                    None, None))),
     AmpMessage(Some("assistant"), Some(1), None)}
      \cup {AmpMessage(Some("assistant"), id,
                       Some(AmpMessageUsage(Some("gemini-2.5-pro"), Some(10), Some(4),
                                            None, Some(2), Some(Finite(5))))) :
              id \in {None, Some(1), Some(2), Some(I64_MAX)}}
      \cup {AmpMessage(Some("assistant"), Some(2),
                       Some(AmpMessageUsage(None, Some(10), None, None, None, None)))}

SeqsUpTo(S, n) == UNION {[1..k -> S] : k \in 0..n}

AmpPath == "threads/T-7.json"

AmpFiles(max_events, max_messages) ==
    {Unreadable, NotJson, WrongShape}
      \cup {AmpThread(id, created, messages, Some(AmpUsageLedger(Some(events)))) :
              id \in {None, Some("T-1")},
              created \in {None, Some(5)},
              messages \in {None, Some(<<CHOOSE m \in AmpMessages :
                                           has_usage_model(m) /\ m.message_id = Some(1)>>)},
              events \in SeqsUpTo(AmpEvents, max_events)}
      \cup {AmpThread(id, created, messages, ledger) :
              id \in {None, Some("T-1")},
              created \in {None, Some(0), Some(5), Some(I64_MAX)},
              messages \in {None} \cup {Some(ms) : ms \in SeqsUpTo(AmpMessages, max_messages)},
              ledger \in {None, Some(AmpUsageLedger(None))}}

InitAmp ==
    /\ now = StartNow
    /\ fs = <<>>
    /\ inode = <<>>
    /\ pc = <<>>
    /\ content = <<>>
    /\ fd = <<>>
    /\ off = <<>>
    /\ lastLoad = [pc |-> "idle"]
    /\ svc = IdleSvc
    /\ lit = IdleLit
    /\ orf = IdleOrf
    /\ task = <<>>
    /\ lk = <<>>
    /\ query = <<>>
    /\ cost = <<>>
    /\ amp = [called |-> FALSE]
    /\ norm = <<>>
    /\ miss = <<>>

\* parse_amp_file(path) on a file with the given content
ParseAmpFile(file, overflow_checks) ==
    /\ ~amp.called
    /\ amp' = [called |-> TRUE, file |-> file,
               result |-> parse_amp_file(file, AmpPath, overflow_checks)]
    /\ UNCHANGED <<cacheVars, fetchVars, lookupVars, cost, norm, miss>>

\* the caller has consumed the messages
AmpDone ==
    /\ amp.called
    /\ amp' = [called |-> FALSE]
    /\ UNCHANGED <<cacheVars, fetchVars, lookupVars, cost, norm, miss>>

NextAmp ==
    \/ AmpDone
    \/ /\ ~amp.called
       /\ \E file \in AmpFiles(MaxEvents, MaxMessages), overflow_checks \in BOOLEAN :
            ParseAmpFile(file, overflow_checks)

SpecAmp == InitAmp /\ [][NextAmp]_vars

(***************************************************************************)
(* Claims about the cache                                                  *)
(***************************************************************************)
AnyCompleteBlob == {Serialize(t, d) : t \in ClockValues, d \in Datasets}

\* C2: load_cache returns the stored data only when the file is readable,
\* deserializes, and its timestamp ts has ts <= now and now - ts <= 3600;
\* in every other case it returns absent (there is no error outcome).
C2_LoadFailsClosed ==
    [][(lastLoad.pc = "idle" /\ lastLoad'.pc = "returned") =>
        LET rd   == FinalContent
            blob == IF rd.some THEN Deserialize(rd.v) ELSE None
        IN  lastLoad'.result =
              IF /\ rd.some
                 /\ blob.some
                 /\ blob.v.timestamp <= now
                 /\ now - blob.v.timestamp <= 3600
              THEN Some(blob.v.data)
              ELSE None]_vars

\* a blob saved in this run has aged past the TTL and load_cache returned
\* absent although the file still deserializes
C2_Witness ==
    /\ lastLoad.pc = "returned"
    /\ ~lastLoad.result.some
    /\ FinalContent.some
    /\ FinalContent.v \in AnyCompleteBlob
    /\ now - FinalContent.v[1].ts > 3600

\* C3: every step of a save_cache call before its rename, an interruption
\* included, leaves the file at the final path unchanged, and with it what
\* load_cache returns at any time.
C3_InterruptedSaveLeavesFinal ==
    [][(\A w \in Saves : ~(pc[w] = "rename" /\ pc'[w] = "done")) =>
        /\ FinalContent' = FinalContent
        /\ (fs' # fs \/ inode' # inode) =>
              \A t \in ClockValues :
                 load_cache(fs', inode', OPENROUTER_CACHE_FILENAME, t)
                   = load_cache(fs, inode, OPENROUTER_CACHE_FILENAME, t)]_vars

\* a save was interrupted in the middle of write_all: the temporary file is
\* half written and the final path still holds the earlier blob
C3_Witness ==
    /\ \E w \in Saves : pc[w] = "failed"
    /\ fs[tmp_path(OPENROUTER_CACHE_FILENAME)] # 0
    /\ Len(inode[fs[tmp_path(OPENROUTER_CACHE_FILENAME)]]) = 1
    /\ FinalContent.some
    /\ FinalContent.v \in PriorContents
    /\ Deserialize(FinalContent.v).some

\* C4: under every interleaving of concurrent save_cache calls the final
\* path holds the complete serialized content of one save, or the prior
\* content.
C4_FinalAlwaysComplete ==
    FinalContent.some => FinalContent.v \in PriorContents \cup AnyCompleteBlob

(***************************************************************************)
(* Claims about the acquisition                                            *)
(***************************************************************************)
Requested(id) == task[id].pc # "idle" /\ task[id].reqs > 0

\* a transport error, HTTP 5xx or HTTP 429
TransientResponse(r) ==
    \/ r.kind = "error"
    \/ r.kind = "http" /\ (r.status \in 500..599 \/ r.status = 429)

\* a status that is neither success nor 5xx/429, a body that is not the
\* expected JSON, or no endpoint of the expected provider
PermanentFailure(id, r) ==
    /\ r.kind = "http"
    /\ r.status \notin 500..599
    /\ r.status # 429
    /\ \/ r.status \notin 200..299
       \/ ~r.body.json
       \/ ~\E i \in 1..Len(r.body.endpoints) :
             to_lowercase(r.body.endpoints[i].provider_name)
               = to_lowercase(expected_provider(split(id, "/")[1]))

\* the batch has its mapping, from the network
BatchMerged == orf.pc \in {"save", "done"} /\ ~orf.hit

\* C1: every id is requested at most 3 times; an id whose attempts all fail
\* transiently is requested exactly 3 times and is absent from the mapping
\* fetch_all_mapped returns, which holds the other ids' results.
C1_RetryBudget ==
    \A id \in unique_ids :
        task[id].pc # "idle" =>
          /\ task[id].reqs <= 3
          /\ (task[id].pc = "done" /\ Requested(id) /\ TransientResponse(task[id].resp)) =>
                /\ task[id].reqs = 3
                /\ ~task[id].result.some
                /\ BatchMerged =>
                      /\ id \notin DOMAIN orf.result
                      /\ \A o \in unique_ids :
                            task[o].result.some =>
                              o \in DOMAIN orf.result /\ orf.result[o] = task[o].result.v

\* one id has used up its three attempts on transient failures and the
\* batch has returned with the other id's pricing
C1_Witness ==
    /\ orf.pc = "done"
    /\ ~orf.hit
    /\ \E id \in unique_ids, o \in unique_ids :
         /\ task[id].reqs = 3
         /\ TransientResponse(task[id].resp)
         /\ task[id].slept = <<200, 400>>
         /\ id \notin DOMAIN orf.result
         /\ o \in DOMAIN orf.result

\* C7: a permanent failure ends the id's fetch at once -- no further
\* request, no backoff delay, the id absent from the result -- and leaves
\* the other ids and the batch untouched.
C7_PermanentFailureDropsId ==
    /\ [][\A id \in unique_ids :
            /\ (/\ task[id].pc = "send"
                /\ task'[id].pc # "idle"
                /\ task'[id].reqs = task[id].reqs + 1
                /\ PermanentFailure(id, task'[id].resp)) =>
                   /\ task'[id].pc = "done"
                   /\ ~task'[id].result.some
                   /\ task'[id].slept = task[id].slept
                   /\ \A o \in unique_ids \ {id} : task'[o] = task[o]
                   /\ orf' = orf
            /\ (task[id].pc = "done" /\ task'[id].pc = "done") =>
                   task'[id] = task[id]]_vars
    /\ [](BatchMerged =>
            \A id \in unique_ids :
               /\ (Requested(id) /\ PermanentFailure(id, task[id].resp)) =>
                     id \notin DOMAIN orf.result
               /\ task[id].result.some =>
                     id \in DOMAIN orf.result /\ orf.result[id] = task[id].result.v)

\* one id was dropped on its first response, a permanent failure, and the
\* batch has returned with the other id's pricing
C7_Witness ==
    /\ orf.pc = "done"
    /\ ~orf.hit
    /\ \E id \in unique_ids, o \in unique_ids :
         /\ task[id].reqs = 1
         /\ PermanentFailure(id, task[id].resp)
         /\ task[id].resp.status = 200
         /\ task[id].slept = <<>>
         /\ id \notin DOMAIN orf.result
         /\ task[o].reqs = 3
         /\ o \in DOMAIN orf.result

\* the bulk request failed: the client could not be built, the transport
\* failed, or the body did not decode
BulkRequestFailed ==
    /\ ~lit.hit
    /\ \/ lit.resp.kind \in {"builder error", "error"}
       \/ lit.resp.kind = "http" /\ ~lit.resp.body.json

\* C8: PricingService::fetch fails exactly when there is no valid cached
\* bulk dataset and the bulk request fails; then it returns no dataset.
\* Neither the per-endpoint outcomes nor a failed cache save make it fail.
C8_FetchFailsOnlyOnBulk ==
    svc.pc = "done" =>
        /\ svc.result.ok = ~BulkRequestFailed
        /\ BulkRequestFailed => svc.result = [ok |-> FALSE]
        /\ ~BulkRequestFailed =>
              /\ svc.result.litellm = lit.result.v
              /\ svc.result.openrouter = orf.result

\* the service was built although every id was dropped and the save of the
\* bulk dataset failed
C8_Witness ==
    /\ svc.pc = "done"
    /\ svc.result.ok
    /\ ~lit.hit
    /\ ~lit.saved
    /\ ~orf.hit
    /\ orf.result = <<>>
    /\ \A id \in unique_ids : Requested(id)

LitFile == ReadFile(fs, inode, final_path(LITELLM_CACHE_FILENAME))
OrFile == ReadFile(fs, inode, final_path(OPENROUTER_CACHE_FILENAME))

\* C9: when load_cache yields a valid entry at the start of a fetch, the
\* fetch returns exactly the cached data, sends no request and leaves the
\* cache file as it is -- for litellm::fetch and for fetch_all_mapped.
C9_CacheHitSkipsNetwork ==
    [][/\ (/\ lit.pc = "load" /\ lit'.pc # "load"
           /\ load_cache(fs, inode, LITELLM_CACHE_FILENAME, now).some) =>
              /\ lit'.pc = "done"
              /\ lit'.result = [ok |-> TRUE, v |-> Deserialize(LitFile.v).v.data]
              /\ lit'.reqs = 0
       /\ (lit'.pc = "done" /\ lit'.hit) => lit'.reqs = 0 /\ LitFile' = LitFile
       /\ (/\ orf.pc = "load" /\ orf'.pc # "load"
           /\ load_cache(fs, inode, OPENROUTER_CACHE_FILENAME, now).some) =>
              /\ orf'.pc = "done"
              /\ orf'.result = Deserialize(OrFile.v).v.data
       /\ (orf'.pc = "done" /\ orf'.hit) =>
              /\ OrFile' = OrFile
              /\ \A id \in unique_ids : task'[id].pc = "idle"]_vars

\* both fetches were served from the cache, at a time later than the
\* entries were written
C9_Witness ==
    /\ svc.pc = "done"
    /\ lit.hit
    /\ orf.hit
    /\ now > Deserialize(LitFile.v).v.timestamp
    /\ now > Deserialize(OrFile.v).v.timestamp


(***************************************************************************)
(* Claims about the resolver (SpecLookup)                                  *)
(***************************************************************************)
\* the id the strategies work on: the alias target when there is one
Canonical == IF query.model_id \in DOMAIN MODEL_ALIASES
             THEN MODEL_ALIASES[query.model_id] ELSE query.model_id

BulkHit(key) == Some(LookupResult(lk.litellm[key], "litellm", key))

PrefixOrder == <<"anthropic/", "openai/", "google/", "bedrock/", "openrouter/">>

\* the keys prefix + name that are in the bulk dataset, by position of the prefix
PrefixedAt(name) == {i \in 1..Len(PrefixOrder) : (PrefixOrder[i] \o name) \in DOMAIN lk.litellm}

FirstPrefixed(name) ==
    PrefixOrder[CHOOSE i \in PrefixedAt(name) : \A j \in PrefixedAt(name) : i <= j] \o name

HasDirectKey(name) == name \in DOMAIN lk.litellm \/ PrefixedAt(name) # {}

\* the candidate occurs in the key at some position with a non-alphanumeric
\* character or a string edge on both sides
BoundedOccurrence(key, cand) ==
    \E p \in 1..(Len(key) - Len(cand) + 1) :
        /\ SubSeq(key, p, p + Len(cand) - 1) = cand
        /\ p = 1 \/ ~is_alphanumeric(SubSeq(key, p - 1, p - 1))
        /\ \/ p + Len(cand) - 1 = Len(key)
           \/ ~is_alphanumeric(SubSeq(key, p + Len(cand), p + Len(cand)))

\* the candidate's first occurrence in the key is bounded on both sides
FirstOccurrenceBounded(key, cand) ==
    \E p \in 1..(Len(key) - Len(cand) + 1) :
        /\ SubSeq(key, p, p + Len(cand) - 1) = cand
        /\ \A q \in 1..(p - 1) : SubSeq(key, q, q + Len(cand) - 1) # cand
        /\ p = 1 \/ ~is_alphanumeric(SubSeq(key, p - 1, p - 1))
        /\ \/ p + Len(cand) - 1 = Len(key)
           \/ ~is_alphanumeric(SubSeq(key, p + Len(cand), p + Len(cand)))

FuzzyCandidates ==
    {to_lowercase(Canonical)}
        \cup (IF normalize_model_name(Canonical).some
              THEN {to_lowercase(normalize_model_name(Canonical).v)} ELSE {})

FuzzyHits ==
    {k \in DOMAIN lk.litellm :
        \E c \in FuzzyCandidates : BoundedOccurrence(to_lowercase(k), c)}

FuzzyFirstHits ==
    {k \in DOMAIN lk.litellm :
        \E c \in FuzzyCandidates : FirstOccurrenceBounded(to_lowercase(k), c)}

LeastKey(keys) == CHOOSE k \in keys : \A o \in keys \ {k} : StrLess(k, o)

\* no exact, prefixed, normalized or prefixed-normalized key: the scan runs
FuzzyReached ==
    /\ query.called
    /\ ~HasDirectKey(Canonical)
    /\ normalize_model_name(Canonical).some
           => ~HasDirectKey(normalize_model_name(Canonical).v)

EndpointHit ==
    IF Canonical \in DOMAIN OPENROUTER_MAPPINGS
          /\ OPENROUTER_MAPPINGS[Canonical] \in DOMAIN lk.openrouter
    THEN Some(LookupResult(lk.openrouter[OPENROUTER_MAPPINGS[Canonical]], "openrouter",
                           OPENROUTER_MAPPINGS[Canonical]))
    ELSE None

\* C5: lookup returns the match of the earliest strategy that has one, in the
\* order exact canonical key, prefixed canonical key (anthropic/, openai/,
\* google/, bedrock/, openrouter/), exact normalized key, prefixed normalized
\* key, fuzzy fallback, per-endpoint dataset; a per-endpoint result is
\* returned only when every bulk strategy fails.
C5_StrategyOrder ==
    query.called =>
        LET n == normalize_model_name(Canonical)
            fuzzy == fuzzy_match_litellm(lk, Canonical)
        IN  /\ query.result =
                 IF Canonical \in DOMAIN lk.litellm THEN BulkHit(Canonical)
                 ELSE IF PrefixedAt(Canonical) # {} THEN BulkHit(FirstPrefixed(Canonical))
                 ELSE IF n.some /\ n.v \in DOMAIN lk.litellm THEN BulkHit(n.v)
                 ELSE IF n.some /\ PrefixedAt(n.v) # {} THEN BulkHit(FirstPrefixed(n.v))
                 ELSE IF fuzzy.some THEN fuzzy
                 ELSE EndpointHit
            /\ (query.result.some /\ query.result.v.source = "openrouter")
                 => /\ ~HasDirectKey(Canonical)
                    /\ n.some => ~HasDirectKey(n.v)
                    /\ ~fuzzy.some

\* a query whose canonical id has an exact key, a prefixed key under two
\* prefixes and a fuzzy match on another key, all at once
C5_Witness ==
    /\ query.called
    /\ query.model_id = "gpt-4o"
    /\ {"gpt-4o", "openai/gpt-4o", "openrouter/gpt-4o"} \subseteq DOMAIN lk.litellm
    /\ query.result.v.matched_key = "gpt-4o"

\* C6: when the fuzzy fallback is reached it returns the first key, in sorted
\* order, in which the lower-cased id or the lower-cased normalized id has an
\* occurrence bounded on both sides by a non-alphanumeric character or a
\* string edge, and none exactly when no key has such an occurrence.
C6_FuzzyAnyBoundedOccurrence ==
    FuzzyReached =>
        LET hits == FuzzyHits
        IN  IF hits = {}
            THEN query.result.some => query.result.v.source # "litellm"
            ELSE query.result = BulkHit(LeastKey(hits))

\* what the scan does: only the first occurrence in a key is examined
C6_FuzzyFirstOccurrence ==
    FuzzyReached =>
        LET hits == FuzzyFirstHits
        IN  IF hits = {}
            THEN query.result.some => query.result.v.source # "litellm"
            ELSE query.result = BulkHit(LeastKey(hits))

\* the scan is reached on a key whose first occurrence of the id is inside a
\* word and whose second occurrence is bounded, and nothing is returned
C6_Diverges ==
    /\ FuzzyReached
    /\ query.model_id = "gpt-4o"
    /\ DOMAIN lk.litellm = {"chatgpt-4o/gpt-4o"}
    /\ ~query.result.some

\* C10: when the canonical id has no exact and no prefixed key but normalizes
\* to N, lookup returns the bulk record under N, or else under the first
\* provider prefix + N, with matched_key the key that matched; the id
\* "claude-sonnet-4-5-20250101" over {"anthropic/sonnet-4-5"} returns that
\* record with matched_key "anthropic/sonnet-4-5" from the bulk dataset.
C10_NormalizedRetry ==
    /\ (query.called /\ ~HasDirectKey(Canonical) /\ normalize_model_name(Canonical).some)
         => LET N == normalize_model_name(Canonical).v
            IN  /\ N \in DOMAIN lk.litellm => query.result = BulkHit(N)
                /\ (N \notin DOMAIN lk.litellm /\ PrefixedAt(N) # {})
                     => query.result = BulkHit(FirstPrefixed(N))
    /\ (query.called /\ query.model_id = "claude-sonnet-4-5-20250101"
          /\ DOMAIN lk.litellm = {"anthropic/sonnet-4-5"})
         => /\ query.result.some
            /\ query.result.v.matched_key = "anthropic/sonnet-4-5"
            /\ query.result.v.source = "litellm"
            /\ query.result.v.pricing = lk.litellm["anthropic/sonnet-4-5"]

C10_Witness ==
    /\ query.called
    /\ query.model_id = "claude-sonnet-4-5-20250101"
    /\ DOMAIN lk.litellm = {"anthropic/sonnet-4-5"}
    /\ query.result.some
    /\ query.result.v.matched_key = "anthropic/sonnet-4-5"


(***************************************************************************)
(* Claims about calculate_cost (SpecCost)                                  *)
(***************************************************************************)
RateOr0(rate) == IF rate.some THEN rate.v.v ELSE 0

CostRecord == lookup(lk, cost.model_id).v.pricing

\* the cost formula over the integers, in units of 1e-7 USD
FormulaCost ==
    cost.input * RateOr0(CostRecord.input_cost_per_token)
      + (cost.output + cost.reasoning) * RateOr0(CostRecord.output_cost_per_token)
      + cost.cache_read * RateOr0(CostRecord.cache_read_input_token_cost)
      + cost.cache_write * RateOr0(CostRecord.cache_creation_input_token_cost)

\* C11: when lookup resolves a record, calculate_cost equals input*input_rate
\* + (output+reasoning)*output_rate + cache_read*cache_read_rate
\* + cache_write*cache_write_rate with absent rates taken as 0, for all token
\* counts in the integer range of the inputs.
C11_CostFormula ==
    (cost.called /\ lookup(lk, cost.model_id).some)
        => cost.result = Returned(Finite(FormulaCost))

\* the same statement for the calls in which output + reasoning is in range
C11_CostFormulaInRange ==
    (cost.called /\ lookup(lk, cost.model_id).some
       /\ ~overflows(cost.output + cost.reasoning))
        => cost.result = Returned(Finite(FormulaCost))

\* the scenario 1000 input, 500 output, 200 cache-read, 0 cache-write and 100
\* reasoning tokens at 0.000003 / 0.000015 / 0.0000003 costs 0.012060 USD
C11_Scenario ==
    /\ cost.called
    /\ cost.input = 1000 /\ cost.output = 500 /\ cost.cache_read = 200
    /\ cost.cache_write = 0 /\ cost.reasoning = 100
    /\ lookup(lk, cost.model_id).some
    /\ CostRecord = ModelPricing(Some(Finite(30)), Some(Finite(150)), None, Some(Finite(3)))
    /\ cost.result = Returned(Finite(120600))

\* output + reasoning leaves the range and the outcome is not the formula's
C11_Overflow ==
    /\ cost.called
    /\ lookup(lk, cost.model_id).some
    /\ cost.output = I64_MAX /\ cost.reasoning = 100
    /\ RateOr0(CostRecord.output_cost_per_token) > 0
    /\ cost.result # Returned(Finite(FormulaCost))

AllRatesAbsent(p) ==
    /\ ~p.input_cost_per_token.some
    /\ ~p.output_cost_per_token.some
    /\ ~p.cache_creation_input_token_cost.some
    /\ ~p.cache_read_input_token_cost.some

\* C12: calculate_cost returns exactly 0.0, without raising an error, for
\* every combination of token counts whenever lookup finds no record or the
\* resolved record has all four rates absent.
C12_ZeroCost ==
    (cost.called
       /\ (~lookup(lk, cost.model_id).some \/ AllRatesAbsent(CostRecord)))
        => cost.result = Returned(Finite(0))

\* the part of the statement about ids with no record
C12_ZeroCostNoRecord ==
    (cost.called /\ ~lookup(lk, cost.model_id).some)
        => cost.result = Returned(Finite(0))

\* a record with no rates, an overflowing output + reasoning, and a panic
C12_Panics ==
    /\ cost.called
    /\ lookup(lk, cost.model_id).some
    /\ AllRatesAbsent(CostRecord)
    /\ cost.result = Panic


(***************************************************************************)
(* Claims about parse_amp_file (SpecAmp)                                   *)
(***************************************************************************)
AmpLedgerPath ==
    /\ amp.file.kind = "thread"
    /\ amp.file.usage_ledger.some
    /\ amp.file.usage_ledger.v.events.some

AmpFallbackPath == amp.file.kind = "thread" /\ ~AmpLedgerPath

\* C13: parse_amp_file never raises a fatal error: for every file it returns a
\* finite sequence, and on any read or decode failure that sequence is empty.
C13_NeverFatal ==
    amp.called =>
        /\ amp.result.kind = "value"
        /\ amp.file.kind # "thread" => amp.result.v = <<>>

\* the part of the statement about read and decode failures
C13_FailureGivesEmpty ==
    (amp.called /\ amp.file.kind # "thread") => amp.result = Returned(<<>>)

\* a well-formed thread with an extreme messageId, and a panic
C13_Panics ==
    /\ amp.called
    /\ AmpFallbackPath
    /\ amp.file.created = Some(0)
    /\ amp.file.messages.some
    /\ \E i \in 1..Len(amp.file.messages.v) :
          amp.file.messages.v[i].message_id = Some(I64_MAX)
    /\ amp.result = Panic

\* the event names a model and its timestamp parses to an instant other than 0
EventQualifies(event) ==
    /\ event.model.some
    /\ event.timestamp.some
    /\ parse_from_rfc3339_millis(event.timestamp.v).some
    /\ parse_from_rfc3339_millis(event.timestamp.v).v # 0

\* the message is an assistant turn whose usage names a model, and the thread
\* or the message gives something to compute a timestamp from
MessageQualifies(msg) ==
    /\ msg.role = Some("assistant")
    /\ msg.usage.some
    /\ msg.usage.v.model.some
    /\ amp.file.created.some \/ msg.message_id.some

QualifyingEvents == SelectSeq(amp.file.usage_ledger.v.events.v, EventQualifies)

QualifyingMessages ==
    IF amp.file.messages.some THEN SelectSeq(amp.file.messages.v, MessageQualifies)
    ELSE <<>>

\* C14: in the ledger path and in the per-message path a record lacking a
\* model identifier or a resolvable timestamp produces no event while the
\* other records of the file still produce theirs; no emitted message carries
\* an unresolved (defaulted, zero) timestamp_ms.
C14_DropsIndividually ==
    (amp.called /\ amp.file.kind = "thread" /\ amp.result.kind = "value") =>
        /\ AmpLedgerPath =>
             /\ Len(amp.result.v) = Len(QualifyingEvents)
             /\ \A k \in 1..Len(QualifyingEvents) :
                   /\ amp.result.v[k].model = QualifyingEvents[k].model.v
                   /\ amp.result.v[k].timestamp_ms =
                        parse_from_rfc3339_millis(QualifyingEvents[k].timestamp.v).v
        /\ AmpFallbackPath =>
             /\ Len(amp.result.v) = Len(QualifyingMessages)
             /\ \A k \in 1..Len(QualifyingMessages) :
                   amp.result.v[k].model = QualifyingMessages[k].usage.v.model.v
        /\ \A k \in 1..Len(amp.result.v) :
              amp.result.v[k].timestamp_ms = 0
                 => (amp.file.created.some /\ AmpFallbackPath)

\* the part of the statement about the ledger path
C14_LedgerDropsIndividually ==
    (amp.called /\ AmpLedgerPath) =>
        /\ amp.result.kind = "value"
        /\ Len(amp.result.v) = Len(QualifyingEvents)
        /\ \A k \in 1..Len(amp.result.v) :
              /\ amp.result.v[k].timestamp_ms # 0
              /\ amp.result.v[k].model = QualifyingEvents[k].model.v

\* a thread without `created` whose assistant message has no messageId: the
\* message is emitted with the defaulted timestamp 0
C14_ZeroTimestamp ==
    /\ amp.called
    /\ AmpFallbackPath
    /\ ~amp.file.created.some
    /\ amp.result.kind = "value"
    /\ \E k \in 1..Len(amp.result.v) : amp.result.v[k].timestamp_ms = 0


DelayAfter(k) == CASE k = 1 -> 200 [] k = 2 -> 400 [] k = 3 -> 800 [] OTHER -> 0

\* C16: within one per-endpoint fetch a delay is applied after a transiently
\* failed attempt exactly when another attempt follows; the delay after the
\* k-th failed attempt is 200 * 2^(k-1) ms; no delay follows the final
\* (third) attempt, and none follows a response that is not a transient
\* failure.
C16_Backoff ==
    [][\A id \in unique_ids :
          /\ (task[id].pc = "send" /\ task'[id].pc # "idle"
                /\ task'[id].reqs = task[id].reqs + 1) =>
                LET k == task'[id].reqs
                IN  IF TransientResponse(task'[id].resp) /\ k < 3
                    THEN /\ task'[id].pc = "sleep"
                         /\ task'[id].slept = Append(task[id].slept, DelayAfter(k))
                    ELSE /\ task'[id].pc = "done"
                         /\ task'[id].slept = task[id].slept
          /\ (task[id].pc = "sleep" /\ task'[id] # task[id]) =>
                /\ task'[id].pc = "send"
                /\ task'[id].reqs = task[id].reqs
                /\ task'[id].slept = task[id].slept]_vars

\* the second attempt has failed transiently and the task sleeps 400 ms
\* before its third
C16_Witness ==
    \E id \in unique_ids :
        /\ task[id].pc = "sleep"
        /\ task[id].reqs = 2
        /\ task[id].slept = <<200, 400>>


(***************************************************************************)
(* Claims about the price fields (SpecEndpoints)                           *)
(***************************************************************************)
\* the price texts that are numeric, finite and not negative, with their
\* value in units of 1e-7 USD
PriceTexts ==
    [t \in {"0.000003", " 0.000003 ", "0.000015", "0.0000003", "0"} |->
        CASE t = "0.000003" -> 30 [] t = " 0.000003 " -> 30 [] t = "0.000015" -> 150
          [] t = "0.0000003" -> 3 [] t = "0" -> 0]

ValidPrice(text) == text \in DOMAIN PriceTexts

\* the id's fetch ended on a 200 response whose body has an endpoint of the
\* expected provider
EndpointMatched(id) ==
    /\ task[id].pc = "done"
    /\ task[id].resp.kind = "http"
    /\ task[id].resp.status = 200
    /\ task[id].resp.body.json
    /\ \E i \in 1..Len(task[id].resp.body.endpoints) :
          to_lowercase(task[id].resp.body.endpoints[i].provider_name)
            = to_lowercase(expected_provider(split(id, "/")[1]))

\* the first endpoint of the expected provider
MatchedEndpoint(id) ==
    LET eps  == task[id].resp.body.endpoints
        hits == {i \in 1..Len(eps) :
                    to_lowercase(eps[i].provider_name)
                      = to_lowercase(expected_provider(split(id, "/")[1]))}
    IN  eps[CHOOSE i \in hits : \A j \in hits : i <= j].pricing

AllFieldsValid(pricing) ==
    /\ ValidPrice(pricing.prompt)
    /\ ValidPrice(pricing.completion)
    /\ pricing.input_cache_read.some => ValidPrice(pricing.input_cache_read.v)
    /\ pricing.input_cache_write.some => ValidPrice(pricing.input_cache_write.v)

RateFrom(field) ==
    IF field.some /\ ValidPrice(field.v) THEN Some(Finite(PriceTexts[field.v])) ELSE None

AllDropped == \A id \in unique_ids : task[id].pc = "done" /\ ~task[id].result.some

Succeeded(id) ==
    /\ EndpointMatched(id)
    /\ ValidPrice(MatchedEndpoint(id).prompt)
    /\ ValidPrice(MatchedEndpoint(id).completion)

PricingOf(id) ==
    LET e == MatchedEndpoint(id)
    IN  ModelPricing(RateFrom(Some(e.prompt)), RateFrom(Some(e.completion)),
                     RateFrom(e.input_cache_write), RateFrom(e.input_cache_read))

\* C19: whatever the interleaving of the per-id tasks, a step of one task
\* changes no other task and not the mapping, and the mapping returned has
\* exactly one entry per deduplicated id whose fetch succeeded, keyed by that
\* id and holding that id's pricing.
C19_OrderIndependent ==
    /\ [][\A id \in unique_ids :
            (task[id].pc \in {"send", "sleep"} /\ task'[id] # task[id]) =>
                /\ \A o \in unique_ids \ {id} : task'[o] = task[o]
                /\ orf' = orf
                /\ fs' = fs /\ inode' = inode]_vars
    /\ [](BatchMerged =>
            /\ DOMAIN orf.result = {id \in unique_ids : Succeeded(id)}
            /\ \A id \in DOMAIN orf.result : orf.result[id] = PricingOf(id))

\* one id succeeded after two retries while the other one failed on its
\* single request; the mapping has the first id only
C19_Witness ==
    /\ orf.pc = "done"
    /\ ~orf.hit
    /\ \E id \in unique_ids, o \in unique_ids :
         /\ task[id].reqs = 3
         /\ task[id].slept = <<200, 400>>
         /\ Succeeded(id)
         /\ task[o].reqs = 1
         /\ ~Succeeded(o)
         /\ DOMAIN orf.result = {id}
         /\ orf.result[id] = PricingOf(id)


(***************************************************************************)
(* Claims about normalize_model_name (SpecNormalize)                       *)
(***************************************************************************)
HasAny(id, markers) == \E m \in markers : contains(to_lowercase(id), m)

\* the version marker is 4: the version the id was composed with is 4 or a
\* minor release of 4 other than 4.5
VersionIsFour == norm.version \in {"4", "4-1"}

\* C20 as stated: an id containing "sonnet" and "3.5" or "3-5" (and neither
\* "4.5" nor "4-5") yields "sonnet-3-5"; an id containing "sonnet" and "3.7"
\* or "3-7" (and neither "4.5" nor "4-5") yields "sonnet-3-7"; "opus-4" and
\* "sonnet-4" are produced only for ids whose version marker is 4.
C20_FamilyVersionForm ==
    norm.called =>
        /\ (/\ HasAny(norm.model_id, {"sonnet"})
            /\ HasAny(norm.model_id, {"3.5", "3-5"})
            /\ ~HasAny(norm.model_id, {"4.5", "4-5"})) =>
               norm.result = Some("sonnet-3-5")
        /\ (/\ HasAny(norm.model_id, {"sonnet"})
            /\ HasAny(norm.model_id, {"3.7", "3-7"})
            /\ ~HasAny(norm.model_id, {"4.5", "4-5"})) =>
               norm.result = Some("sonnet-3-7")
        /\ norm.result \in {Some("opus-4"), Some("sonnet-4")} => VersionIsFour

\* C20 for the ids that have no character 4 outside a version marker 4: the
\* stated forms are the ones produced.
C20_FormWithoutStray4 ==
    (norm.called /\ (VersionIsFour \/ ~HasAny(norm.model_id, {"4"}))) =>
        /\ (/\ HasAny(norm.model_id, {"sonnet"})
            /\ HasAny(norm.model_id, {"3.5", "3-5"})) =>
               norm.result = Some("sonnet-3-5")
        /\ (/\ HasAny(norm.model_id, {"sonnet"})
            /\ HasAny(norm.model_id, {"3.7", "3-7"})) =>
               norm.result = Some("sonnet-3-7")
        /\ norm.result \in {Some("opus-4"), Some("sonnet-4")} => VersionIsFour

\* a 3.5 sonnet id with a release date that has a 4 in it comes out as the
\* version-4 form
C20_Diverges ==
    /\ norm.called
    /\ norm.model_id = "claude-3-5-sonnet-20241022"
    /\ norm.result = Some("sonnet-4")


(***************************************************************************)
(* Claims about the usage source of parse_amp_file (SpecAmp)               *)
(***************************************************************************)
\* an assistant message that has usage and a model
AssistantUsage(msg) ==
    msg.role = Some("assistant") /\ msg.usage.some /\ msg.usage.v.model.some

AssistantUsages ==
    IF amp.file.messages.some THEN SelectSeq(amp.file.messages.v, AssistantUsage)
    ELSE <<>>

OrZero(opt) == IF opt.some THEN opt.v ELSE 0

\* created + messageId * 1000 as an i64: the exact sum when it is in range,
\* the sum modulo 2^WordBits otherwise
IsMessageTimestamp(ts, msg) ==
    LET exact == OrZero(amp.file.created) + OrZero(msg.message_id) * 1000
    IN  /\ ts \in I64_MIN..I64_MAX
        /\ (ts - exact) % pow2(WordBits) = 0

\* C21: one usage source per file.  When the ledger's events list is present
\* the call returns exactly the events built from the ledger records that
\* qualify, in ledger order, and nothing from the messages, also when no
\* record qualifies; when the ledger or its events list is absent, a call
\* that returns gives one event per assistant message with usage and a
\* model, in message order, with timestamp created + messageId * 1000.
C21_OneUsageSource ==
    (amp.called /\ amp.file.kind = "thread") =>
        /\ AmpLedgerPath =>
             /\ amp.result.kind = "value"
             /\ Len(amp.result.v) = Len(QualifyingEvents)
             /\ \A k \in 1..Len(amp.result.v) :
                   LET e == QualifyingEvents[k]
                       m == amp.result.v[k]
                   IN  /\ m.model = e.model.v
                       /\ m.timestamp_ms = parse_from_rfc3339_millis(e.timestamp.v).v
                       /\ m.tokens.input = (IF e.tokens.some THEN OrZero(e.tokens.v.input) ELSE 0)
                       /\ m.tokens.output = (IF e.tokens.some THEN OrZero(e.tokens.v.output) ELSE 0)
                       /\ m.tokens.cache_read = 0
                       /\ m.tokens.cache_write = 0
        /\ (AmpFallbackPath /\ amp.result.kind = "value") =>
             /\ Len(amp.result.v) = Len(AssistantUsages)
             /\ \A k \in 1..Len(amp.result.v) :
                   LET u == AssistantUsages[k]
                       m == amp.result.v[k]
                   IN  /\ m.model = u.usage.v.model.v
                       /\ IsMessageTimestamp(m.timestamp_ms, u)
                       /\ m.tokens.input = OrZero(u.usage.v.input_tokens)
                       /\ m.tokens.output = OrZero(u.usage.v.output_tokens)
                       /\ m.tokens.cache_read = OrZero(u.usage.v.cache_read_input_tokens)
                       /\ m.tokens.cache_write = OrZero(u.usage.v.cache_creation_input_tokens)

\* the ledger's events list is present and empty, the thread has an
\* assistant message with usage and a model, and nothing is emitted
C21_Witness ==
    /\ amp.called
    /\ AmpLedgerPath
    /\ amp.file.usage_ledger.v.events.v = <<>>
    /\ AssistantUsages # <<>>
    /\ amp.result = Returned(<<>>)

\* the ledger qualifies one of two records while the thread has an assistant
\* message with usage; the ledger record alone is emitted
C21_WitnessLedger ==
    /\ amp.called
    /\ AmpLedgerPath
    /\ Len(amp.file.usage_ledger.v.events.v) = 2
    /\ Len(QualifyingEvents) = 1
    /\ AssistantUsages # <<>>
    /\ amp.result.kind = "value"
    /\ Len(amp.result.v) = 1

\* no events list: two assistant messages with usage give two events
C21_WitnessFallback ==
    /\ amp.called
    /\ AmpFallbackPath
    /\ amp.file.usage_ledger = Some(AmpUsageLedger(None))
    /\ amp.file.created = Some(5)
    /\ Len(AssistantUsages) = 2
    /\ amp.result.kind = "value"
    /\ Len(amp.result.v) = 2
    /\ amp.result.v[2].timestamp_ms = 2005


(***************************************************************************)
(* Claims about fetch_missing (SpecMissing)                                *)
(***************************************************************************)
\* the canonical author/slug ids of the alias table
CanonicalIds == {OPENROUTER_MAPPINGS[m] : m \in DOMAIN OPENROUTER_MAPPINGS}

FetchedFor(model_id) ==
    {j \in 1..Len(miss.fetched) : miss.fetched[j].model_id = model_id}

\* C22 as stated: the mapping fetch_missing returns is keyed by the canonical
\* author/slug id, so that the pricing fetched on demand for a model id is
\* what the resolver's per-endpoint lookup of that model id finds.
C22_KeyedByCanonicalId ==
    /\ miss.pc = "done" => DOMAIN miss.result \subseteq CanonicalIds
    /\ (miss.pc = "done" /\ query.called /\ FetchedFor(query.model_id) # {}) =>
          LET last == CHOOSE j \in FetchedFor(query.model_id) :
                         \A i \in FetchedFor(query.model_id) : i <= j
          IN  /\ query.result.some
              /\ query.result.v.source = "openrouter"
              /\ query.result.v.pricing = miss.fetched[last].pricing

\* the part of C22 about the cache and the order: fetch_missing leaves both
\* cache files as they are, and its requests go out one id at a time in list
\* order, at most MAX_RETRIES for each id, all before the next id's first.
C22_UncachedInListOrder ==
    /\ [][fs' = fs /\ inode' = inode]_vars
    /\ [](miss.pc # "idle" =>
            /\ \A a \in 1..Len(miss.sent), b \in 1..Len(miss.sent) :
                  a <= b => miss.sent[a].i <= miss.sent[b].i
            /\ \A a \in 1..Len(miss.sent) :
                  /\ miss.sent[a].or_id = OPENROUTER_MAPPINGS[miss.model_ids[miss.sent[a].i]]
                  /\ Cardinality({b \in 1..Len(miss.sent) :
                                     miss.sent[b].i = miss.sent[a].i}) <= 3)

\* pricing was fetched for "grok-3" and returned under that key; the
\* resolver asks the per-endpoint dataset for "x-ai/grok-3" and finds nothing
C22_Diverges ==
    /\ miss.pc = "done"
    /\ miss.model_ids = <<"grok-3">>
    /\ DOMAIN miss.result = {"grok-3"}
    /\ query.called
    /\ query.model_id = "grok-3"
    /\ ~query.result.some


(***************************************************************************)
(* Claims about the provenance of a lookup result (SpecLookup)             *)
(***************************************************************************)
\* the dataset a source names
DatasetOf(source) ==
    IF source = "litellm" THEN lk.litellm ELSE lk.openrouter

\* C23: a result of lookup names a source that is "litellm" or "openrouter",
\* its matched_key is a key of that source's dataset and its pricing is the
\* record stored there under matched_key; a lookup leaves both datasets as
\* they are, and looking the same id up again returns the same result.
C23_Provenance ==
    /\ [](query.called /\ query.result.some =>
            LET r == query.result.v
            IN  /\ r.source \in {"litellm", "openrouter"}
                /\ r.matched_key \in DOMAIN DatasetOf(r.source)
                /\ r.pricing = DatasetOf(r.source)[r.matched_key])
    /\ [][/\ lk' = lk
          /\ (query.called /\ query'.called /\ query'.model_id = query.model_id) =>
                query'.result = query.result]_vars

\* the per-endpoint dataset answered under a key other than the id asked
\* for, while the bulk dataset holds other keys
C23_Witness ==
    /\ query.called
    /\ query.model_id = "grok-3"
    /\ query.result.some
    /\ query.result.v.source = "openrouter"
    /\ query.result.v.matched_key = "x-ai/grok-3"
    /\ query.result.v.pricing = lk.openrouter["x-ai/grok-3"]
    /\ DOMAIN lk.litellm # {}

\* the bulk dataset answered by a fuzzy match under a key that is neither
\* the id nor a prefixed form of it
C23_WitnessFuzzy ==
    /\ query.called
    /\ query.model_id = "mini"
    /\ query.result.some
    /\ query.result.v.source = "litellm"
    /\ query.result.v.matched_key \in DOMAIN lk.litellm
    /\ query.result.v.matched_key # "mini"

====
